---- MODULE Spec2Model ----
(***************************************************************************)
(* BonEngine 2D rendering core: the Gfx facade (Gfx.cpp) on top of the     *)
(* SDL/OpenGL backend (GfxSdlWrapper.cpp).                                 *)
(*                                                                         *)
(* The backend object and the file-level statics of GfxSdlWrapper.cpp are  *)
(* one record, gfx.  Every backend function is an operator from a gfx      *)
(* record to a gfx record; a facade call is an action that applies the     *)
(* operators of the functions it calls, in the order the code calls them.  *)
(* gfx.log is the sequence of commands the current call sent to SDL /      *)
(* OpenGL / the diagnostics manager; gfx.raised is the exception the call  *)
(* ended with.  Both are reset when the next call starts.                  *)
(*                                                                         *)
(* Numbers: a PointF coordinate is held in half units (20 is 10.0, 1 is    *)
(* 0.5), so that floor() and the float-to-int truncation of the code are   *)
(* exact integer operations.  Font native sizes are powers of two, so the  *)
(* float quotient fontSize / nativeSize of the code is exact as well.      *)
(***************************************************************************)
EXTENDS Integers, Sequences, FiniteSets, TLC

\* How many times a window is (re)created in one run.
MaxWindows == 2

\* How many reading buffers an image handle is given in one run.
MaxBuffers == 3

----------------------------------------------------------------------------
(* Values *)

NullEffect == [kind |-> "null", gen |-> 0]

\* An application-supplied effect asset.
CustomEffects == {[kind |-> "custom", gen |-> 0]}

BlendModes == {"Opaque", "AlphaBlend"}

Colors == {"White", "Red"}

NullImage == [name |-> "null", w |-> 0, h |-> 0, alpha |-> FALSE]

Images == {[name |-> "tile", w |-> 2, h |-> 2, alpha |-> FALSE],
           [name |-> "sprite", w |-> 9, h |-> 4, alpha |-> TRUE]}

\* Sizes a window is asked for; <<0, 0>> asks for the desktop's resolution.
WindowRequests == {<<8, 6>>}

WindowSizeRequests == {<<8, 6>>, <<3, 7>>, <<0, 0>>}

DesktopMode == <<12, 9>>

ZeroRect == [x |-> 0, y |-> 0, w |-> 0, h |-> 0]

Viewports == {[x |-> 0, y |-> 0, w |-> 4, h |-> 3],
              [x |-> 1, y |-> 1, w |-> 10, h |-> 5]}

\* Rectangles ClearScreen is given; ZeroRect is the default argument.
ClearRects == {ZeroRect, [x |-> 1, y |-> 1, w |-> 2, h |-> 2]}

\* Circles: one centre, the radii drawn.
Center == <<5, 5>>

Radii == {0, 2}

\* The largest radius a circle is drawn with.
MaxRadius == 6

CircleRadii == -1..MaxRadius

Triangle == << <<0, 0>>, <<4, 0>>, <<0, 3>> >>

Quad == << <<0, 0>>, <<4, 0>>, <<4, 3>>, <<0, 3>> >>

\* Fonts: the asset's name and the pixel size it was loaded at.
Fonts == {[name |-> "small", size |-> 2], [name |-> "big", size |-> 4]}

\* The empty text is the one SDL_ttf refuses to render ("Text has zero width").
Texts == {"", "Hi"}

\* A font and a text measuring 50 x 50, and the arguments they are drawn with.
RectFonts == {[name |-> "huge", size |-> 50]}

RectTexts == {"A"}

Keys == {<<f.name, t>> : f \in Fonts \cup RectFonts, t \in Texts \cup RectTexts}

\* Images drawn with explicit sizes and source rectangles.
RectImages == {[name |-> "tile", w |-> 2, h |-> 2, alpha |-> FALSE],
               [name |-> "photo", w |-> 64, h |-> 48, alpha |-> TRUE]}

Sizes == {<<0, 0>>, <<5, 0>>, <<0, 7>>, <<50, 50>>, <<-3, 5>>}

\* ZeroRect stands for the null pointer.
SourceRects == {ZeroRect, [x |-> 1, y |-> 1, w |-> 3, h |-> 0],
                [x |-> 0, y |-> 0, w |-> 3, h |-> 6]}

FontSizes == {0, 3}

MaxWidths == {0, 3}

\* PointF values, in half units.
Positions == {<<20, 20>>}

\* (0.5, 1.0): anchored bottom-centre.
Origins == {<<1, 2>>}

OutlineWidths == {0, 1}

\* Outline widths of every sign.
SignedOutlineWidths == {-1, 0, 1, 2}

\* maxWidth the code substitutes for 0.
UnboundedWidth == 4095

NoRect == [x |-> 0, y |-> 0, w |-> 0, h |-> 0, set |-> FALSE]

EmptyEntry == [tex |-> 0, w |-> 0, h |-> 0, used |-> FALSE]

----------------------------------------------------------------------------
(* State *)

VARIABLES
    gfx,            \* GfxSdlWrapper and the statics of GfxSdlWrapper.cpp
    viewport,       \* Gfx.cpp _viewport
    renderTarget,   \* Gfx.cpp _renderTarget
    call,           \* the facade / backend call that produced this state
    engine,         \* Engine: _isRunning and the manager pointers
    handle,         \* an SDL_ImageHandle, and the surfaces SDL holds for it
    sfx,            \* Sfx and the audio backend behind it
    input,          \* the key binds the Input manager was given, in order
    game,           \* Game: the manager calls of LoadConfig and what it raised
    ui              \* a _UIDropDown

\* The state of the Gfx manager, and the state outside of it.
gfxvars == <<gfx, viewport, renderTarget>>

gamevars == <<sfx, input, game>>

outside == <<engine, handle, gamevars, ui>>

vars == <<gfx, viewport, renderTarget, call, engine, handle, sfx, input, game, ui>>

Ev(name, a) == [ev |-> name, arg |-> a]

\* A command sent to SDL / OpenGL / diagnostics by the running call.
Emit(g, name, a) ==
    IF g.raised # "none" THEN g ELSE [g EXCEPT !.log = Append(@, Ev(name, a))]

Raise(g, what) ==
    IF g.raised # "none" THEN g ELSE [g EXCEPT !.raised = what]

\* A new call starts: nothing sent yet, nothing raised, nothing returned.
Enter(g) == [g EXCEPT !.log = <<>>, !.raised = "none", !.ret = NoRect]

RECURSIVE CountFrom(_, _, _)
CountFrom(log, names, i) ==
    IF i > Len(log) THEN 0
    ELSE (IF log[i].ev \in names THEN 1 ELSE 0) + CountFrom(log, names, i + 1)

\* How many commands of the given kinds the call has sent.
Count(log, names) == CountFrom(log, names, 1)

Min(a, b) == IF a < b THEN a ELSE b

Abs(a) == IF a < 0 THEN -a ELSE a

\* (int)(a / b) of C for b > 0: truncation toward zero.
TruncDiv(a, b) == IF a >= 0 THEN a \div b ELSE -((-a) \div b)

----------------------------------------------------------------------------
(* GfxOpenGL: the state-setting calls of the OpenGL layer *)

SetBlendMode(g, blend) ==
    IF g.raised # "none" THEN g
    ELSE Emit([g EXCEPT !.blend = blend], "SetBlendMode", blend)

SetShaderProgram(g, effect) ==
    IF g.raised # "none" THEN g
    ELSE Emit([g EXCEPT !.bindsOfProgram =
                            IF g.program = effect THEN @ + 1 ELSE 1,
                        !.program = effect],
              "SetShaderProgram", effect)

\* The textured-quad primitive; it leaves the rotation/anchor memo filled.
DrawTexture(g, tex, position, size, blend, origin, color) ==
    IF g.raised # "none" THEN g
    ELSE Emit([g EXCEPT !.blend = blend, !.lastRotation = "cached"],
              "DrawTexture",
              [tex |-> tex, pos |-> position, size |-> size, blend |-> blend,
               origin |-> origin, color |-> color])

----------------------------------------------------------------------------
(* GfxSdlWrapper: effects *)

RestoreDefaultStates(g) ==
    Emit(SetBlendMode(g, "Opaque"), "RenderDrawPoint", <<-1, -1>>)

\* The variant without the comparison against the current effect.
SetCurrentEffectFromAsset_NoCompare(g, effect) ==
    IF g.raised # "none" THEN g
    ELSE IF effect = NullEffect THEN Raise(g, "InvalidValue")
    ELSE RestoreDefaultStates(
             [SetShaderProgram([g EXCEPT !.lastRotation = "sentinel"], effect)
                 EXCEPT !.currentEffect = effect])

\* The variant that takes a null handle for "use the default effect".
SetCurrentEffectFromAsset_NullIsDefault(g, effect) ==
    LET e == IF effect = NullEffect THEN g.defaultEffect ELSE effect
    IN  IF g.raised # "none" \/ e = g.currentEffect THEN g
        ELSE RestoreDefaultStates(
                 [SetShaderProgram([g EXCEPT !.lastRotation = "sentinel"], e)
                     EXCEPT !.currentEffect = e])

\* The variant that switches without resetting the rotation/anchor memo.
SetCurrentEffectFromAsset_KeepsMemo(g, effect) ==
    IF g.raised # "none" THEN g
    ELSE IF effect = NullEffect THEN Raise(g, "InvalidValue")
    ELSE IF effect # g.currentEffect
         THEN RestoreDefaultStates(
                  [SetShaderProgram(g, effect) EXCEPT !.currentEffect = effect])
         ELSE g

SetCurrentEffectFromAsset(g, effect) ==
    IF g.raised # "none" THEN g
    ELSE IF effect = NullEffect THEN Raise(g, "InvalidValue")
    ELSE IF effect # g.currentEffect
         THEN RestoreDefaultStates(
                  [SetShaderProgram([g EXCEPT !.lastRotation = "sentinel"], effect)
                      EXCEPT !.currentEffect = effect])
         ELSE g

SetEffect(g, effect) ==
    IF effect = NullEffect
    THEN SetCurrentEffectFromAsset(g, g.defaultEffect)
    ELSE SetCurrentEffectFromAsset(g, effect)

\* The variant that binds the shapes effect for every shape, already bound or not.
UseDefaultShapesEffect_Rebind(g, onlyIfDefault) ==
    IF g.currentEffect \in {g.defaultEffect, g.defaultEffectShapes}
    THEN SetCurrentEffectFromAsset_NoCompare(g, g.defaultEffectShapes)
    ELSE g

\* The variant that selects the shapes effect whatever effect is current.
UseDefaultShapesEffect_Always(g, onlyIfDefault) ==
    SetCurrentEffectFromAsset(g, g.defaultEffectShapes)

UseDefaultShapesEffect(g, onlyIfDefault) ==
    IF onlyIfDefault
    THEN (IF g.currentEffect = g.defaultEffect
          THEN SetCurrentEffectFromAsset(g, g.defaultEffectShapes)
          ELSE g)
    ELSE SetCurrentEffectFromAsset(g, g.defaultEffectShapes)

UseDefaultTexturesEffect(g, onlyIfDefault) ==
    IF onlyIfDefault
    THEN (IF g.currentEffect = g.defaultEffectShapes
          THEN SetCurrentEffectFromAsset(g, g.defaultEffect)
          ELSE g)
    ELSE SetCurrentEffectFromAsset(g, g.defaultEffect)

RestoreDefaultEffect(g) == SetCurrentEffectFromAsset(g, g.defaultEffect)

SetShapesColor(g, color) ==
    IF g.raised # "none" THEN g
    ELSE Emit([g EXCEPT !.shapeColor = color], "SetUniformVector4", color)

\* The variant that writes the uniform for every draw.
HandleImagesWithoutAlpha_EveryDraw(g, image) ==
    IF g.raised # "none" THEN g
    ELSE IF g.currentEffect = g.defaultEffect
    THEN (IF image # NullImage /\ ~image.alpha
          THEN Emit([g EXCEPT !.extraA = 1, !.lastExtraA = TRUE],
                    "SetUniformFloat", 1)
          ELSE Emit([g EXCEPT !.extraA = 0, !.lastExtraA = FALSE],
                    "SetUniformFloat", 0))
    ELSE g

HandleImagesWithoutAlpha(g, image) ==
    IF g.raised # "none" THEN g
    ELSE IF g.currentEffect = g.defaultEffect
    THEN (IF image # NullImage /\ ~image.alpha
          THEN (IF ~g.lastExtraA
                THEN Emit([g EXCEPT !.extraA = 1, !.lastExtraA = TRUE],
                          "SetUniformFloat", 1)
                ELSE g)
          ELSE IF g.lastExtraA
          THEN Emit([g EXCEPT !.extraA = 0, !.lastExtraA = FALSE],
                    "SetUniformFloat", 0)
          ELSE g)
    ELSE g

----------------------------------------------------------------------------
(* GfxSdlWrapper: images and shapes *)

\* The variant that resolves defaults only when both axes are 0.
SizeOrDefault_BothAxes(size, sourceRect, sourceImage) ==
    IF size[1] = 0 /\ size[2] = 0
    THEN << IF sourceRect # ZeroRect /\ sourceRect.w # 0
            THEN sourceRect.w ELSE sourceImage.w,
            IF sourceRect # ZeroRect /\ sourceRect.h # 0
            THEN sourceRect.h ELSE sourceImage.h >>
    ELSE size

SizeOrDefault(size, sourceRect, sourceImage) ==
    IF size[1] = 0 \/ size[2] = 0
    THEN << IF size[1] = 0
            THEN (IF sourceRect # ZeroRect /\ sourceRect.w # 0
                  THEN sourceRect.w ELSE sourceImage.w)
            ELSE size[1],
            IF size[2] = 0
            THEN (IF sourceRect # ZeroRect /\ sourceRect.h # 0
                  THEN sourceRect.h ELSE sourceImage.h)
            ELSE size[2] >>
    ELSE size

\* sourceImage->Handle() on a null asset is a null dereference: the build
\* either stops there (crash) or goes on with a garbage handle.
ImplDrawImage(g, sourceImage, position, size, blend, ub) ==
    LET g1 == UseDefaultTexturesEffect(g, TRUE)
        g2 == HandleImagesWithoutAlpha(g1, sourceImage)
    IN  IF g2.raised # "none" THEN g2
        ELSE IF sourceImage = NullImage
        THEN (IF ub = "crash" THEN Raise(g2, "crash")
              ELSE DrawTexture(g2, 0, position, size, blend, <<0, 0>>, "White"))
        ELSE DrawTexture(g2, sourceImage.name, position,
                         SizeOrDefault(size, ZeroRect, sourceImage), blend,
                         <<0, 0>>, "White")

\* GfxSdlWrapper::DrawImage with source rectangle, origin, rotation and colour.
ImplDrawImageRect(g, sourceImage, position, size, blend, sourceRect, origin, color, ub) ==
    LET g1 == UseDefaultTexturesEffect(g, TRUE)
        g2 == HandleImagesWithoutAlpha(g1, sourceImage)
    IN  IF g2.raised # "none" THEN g2
        ELSE IF sourceImage = NullImage
        THEN (IF ub = "crash" THEN Raise(g2, "crash")
              ELSE DrawTexture(g2, 0, position, size, blend, origin, color))
        ELSE DrawTexture(g2, sourceImage.name, position,
                         SizeOrDefault(size, sourceRect, sourceImage), blend,
                         origin, color)

\* The variant that sets the blend mode before it selects the effect.
ImplDrawLine_BlendBeforeEffect(g, color, blendMode) ==
    Emit(SetShapesColor(UseDefaultShapesEffect(SetBlendMode(g, blendMode), TRUE),
                        color),
         "RenderDrawLine", color)

ImplDrawLine(g, color, blendMode) ==
    Emit(SetShapesColor(SetBlendMode(UseDefaultShapesEffect(g, TRUE), blendMode),
                        color),
         "RenderDrawLine", color)

ImplDrawPixel(g, color, blendMode) ==
    Emit(SetShapesColor(SetBlendMode(UseDefaultShapesEffect(g, TRUE), blendMode),
                        color),
         "RenderDrawPoint", <<0, 0>>)

\* GfxOpenGL::DrawQuad(position, size, color, origin, rotation, filled)
ImplDrawRectangle(g, rect, color, filled, blendMode) ==
    Emit(SetShapesColor(SetBlendMode(UseDefaultShapesEffect(g, TRUE), blendMode),
                        color),
         "DrawQuad", [rect |-> rect, color |-> color, filled |-> filled])

\* The loop of DrawCircleLines; x, y, error, cx, cy in half units.  Every
\* point is SDL_RenderDrawPoint(_renderer, (int)(cx + x), (int)(cy + y)).
RECURSIVE CircleLinesLoop(_, _, _, _, _, _)
CircleLinesLoop(g, cx, cy, x, y, error) ==
    IF x < y THEN g
    ELSE LET P(h, dx, dy) ==
                 Emit(h, "RenderDrawPoint",
                      <<TruncDiv(cx + dx, 2), TruncDiv(cy + dy, 2)>>)
             g1 == P(P(g, x, y), y, x)
             g2 == IF x # 0 THEN P(P(g1, -x, y), y, -x) ELSE g1
             g3 == IF y # 0 THEN P(P(g2, x, -y), -y, x) ELSE g2
             g4 == IF x # 0 /\ y # 0 THEN P(P(g3, -x, -y), -y, -x) ELSE g3
             e1 == error + y + (y + 2)
         IN  IF e1 >= 0
             THEN CircleLinesLoop(g4, cx, cy, x - 2, y + 2, e1 - 2 * (x - 2))
             ELSE CircleLinesLoop(g4, cx, cy, x, y + 2, e1)

\* The variant that steps from pixel centres: x = radius, y = 0, no shift.
ImplDrawCircleLines_PixelCentres(g, center, radius, color, blend) ==
    CircleLinesLoop(
        SetShapesColor(SetBlendMode(UseDefaultShapesEffect(g, TRUE), blend), color),
        2 * center[1], 2 * center[2], 2 * radius, 0, -2 * radius)

ImplDrawCircleLines(g, center, radius, color, blend) ==
    CircleLinesLoop(
        SetShapesColor(SetBlendMode(UseDefaultShapesEffect(g, TRUE), blend), color),
        2 * center[1] - 1, 2 * center[2] - 1, 2 * radius - 1, 1, -2 * radius)

\* floor(sqrt(n))
ISqrt(n) == CHOOSE r \in 0..n : r * r <= n /\ n < (r + 1) * (r + 1)

\* The loop of DrawCircleFill: a scan line and its mirror image for every dy.
RECURSIVE CircleFillLoop(_, _, _, _)
CircleFillLoop(g, center, radius, dy) ==
    IF dy >= radius THEN g
    ELSE LET dx == ISqrt(2 * radius * dy - dy * dy)
             g1 == Emit(g, "RenderDrawLine",
                        <<center[1] - dx, center[2] + dy - radius,
                          center[1] + dx - 1, center[2] + dy - radius>>)
             g2 == Emit(g1, "RenderDrawLine",
                        <<center[1] - dx, center[2] - dy + radius - 1,
                          center[1] + dx - 1, center[2] - dy + radius - 1>>)
         IN  CircleFillLoop(g2, center, radius, dy + 1)

\* The variant whose loop starts at dy = 0.
ImplDrawCircleFill_FromZero(g, center, radius, color, blend) ==
    CircleFillLoop(
        SetShapesColor(SetBlendMode(UseDefaultShapesEffect(g, TRUE), blend), color),
        center, radius, 0)

ImplDrawCircleFill(g, center, radius, color, blend) ==
    CircleFillLoop(
        SetShapesColor(SetBlendMode(UseDefaultShapesEffect(g, TRUE), blend), color),
        center, radius, 1)

\* GfxOpenGL::DrawPolygon(a, b, c, color, blend)
ImplDrawPolygon(g, points, color, blend) ==
    Emit(SetShapesColor(SetBlendMode(UseDefaultShapesEffect(g, TRUE), blend), color),
         "DrawPolygon", [points |-> points, color |-> color])

\* GfxOpenGL::DrawQuad(a, b, c, d, color, blend)
ImplDrawQuad(g, points, color, blend) ==
    Emit(SetShapesColor(SetBlendMode(UseDefaultShapesEffect(g, TRUE), blend), color),
         "DrawQuad", [points |-> points, color |-> color])

\* The colour is used with its alpha set to 1.
ImplClearScreen(g, color, clearRect) ==
    ImplDrawRectangle(g, clearRect, color, TRUE, "Opaque")

----------------------------------------------------------------------------
(* SDL_ttf and the fonts texture cache *)

\* TTF_RenderText_Blended_Wrapped: the surface of the text wrapped at maxWidth,
\* or no surface for a text of zero width.  A glyph is as wide and as high as
\* the font's size.
TTF_RenderText_Blended_Wrapped(font, text, maxWidth) ==
    LET w == Len(text) * font.size
        h == font.size
    IN  IF text = "" THEN [ok |-> FALSE, w |-> 0, h |-> 0]
        ELSE IF w <= maxWidth THEN [ok |-> TRUE, w |-> w, h |-> h]
        ELSE [ok |-> TRUE, w |-> maxWidth,
              h |-> h * ((w + maxWidth - 1) \div maxWidth)]

\* SDL_CreateTextureFromSurface: a texture that is not one of the live ones.
NewTexture(g) ==
    CHOOSE t \in 1..(Cardinality(Keys) + 1) :
        /\ \A k \in Keys : g.cache[k].tex # t
        /\ \A u \in 1..(t - 1) : \E k \in Keys : g.cache[k].tex = u

\* FontsTextureCache::GetFromCache: the entry of the key (Texture null when
\* there is none); fetching an entry marks it as used in this frame.
GetFromCache(g, key) ==
    IF g.cache[key].tex # 0 THEN [g EXCEPT !.cache[key].used = TRUE] ELSE g

\* FontsTextureCache::AddToCache
AddToCache(g, key, texture, width, height) ==
    [g EXCEPT !.cache[key] =
        [tex |-> texture, w |-> width, h |-> height, used |-> TRUE]]

\* FontsTextureCache::Update: maintenance once per presented frame; it may
\* drop any entries that were not used in the frame that ends.
CacheUpdate(g, evict) ==
    Emit([g EXCEPT !.cache =
             [k \in Keys |-> IF k \in evict THEN EmptyEntry
                             ELSE [g.cache[k] EXCEPT !.used = FALSE]]],
         "CacheUpdate", Cardinality(evict))

Evictable(g) == {k \in Keys : g.cache[k].tex # 0 /\ ~g.cache[k].used}

----------------------------------------------------------------------------
(* GfxSdlWrapper: text *)

\* The variant that anchors with the signed size, not with the rectangle's.
DrawTextAsTexture_SignedAnchor(g, texture, position, size, blend, origin, color, hasOut, dryrun) ==
    LET g1 == HandleImagesWithoutAlpha(UseDefaultTexturesEffect(g, TRUE), NullImage)
        g2 == IF hasOut /\ g1.raised = "none"
              THEN [g1 EXCEPT !.ret =
                      [x |-> (position[1] \div 2) - TruncDiv(origin[1] * size[1], 2),
                       y |-> (position[2] \div 2) - TruncDiv(origin[2] * size[2], 2),
                       w |-> Abs(size[1]), h |-> Abs(size[2]), set |-> TRUE]]
              ELSE g1
    IN  IF dryrun THEN g2
        ELSE DrawTexture(g2, texture, position, size, blend, origin, color)

\* The variant whose dry run leaves the origin out of the rectangle.
DrawTextAsTexture_DryRunUnanchored(g, texture, position, size, blend, origin, color, hasOut, dryrun) ==
    LET g1 == HandleImagesWithoutAlpha(UseDefaultTexturesEffect(g, TRUE), NullImage)
        width == Abs(size[1])
        height == Abs(size[2])
        ox == IF dryrun THEN 0 ELSE origin[1]
        oy == IF dryrun THEN 0 ELSE origin[2]
        g2 == IF hasOut /\ g1.raised = "none"
              THEN [g1 EXCEPT !.ret =
                      [x |-> (position[1] \div 2) - TruncDiv(ox * width, 2),
                       y |-> (position[2] \div 2) - TruncDiv(oy * height, 2),
                       w |-> width, h |-> height, set |-> TRUE]]
              ELSE g1
    IN  IF dryrun THEN g2
        ELSE DrawTexture(g2, texture, position, size, blend, origin, color)

DrawTextAsTexture(g, texture, position, size, blend, origin, color, hasOut, dryrun) ==
    LET g1 == HandleImagesWithoutAlpha(UseDefaultTexturesEffect(g, TRUE), NullImage)
        width == Abs(size[1])
        height == Abs(size[2])
        g2 == IF hasOut /\ g1.raised = "none"
              THEN [g1 EXCEPT !.ret =
                      [x |-> (position[1] \div 2) - TruncDiv(origin[1] * width, 2),
                       y |-> (position[2] \div 2) - TruncDiv(origin[2] * height, 2),
                       w |-> width, h |-> height, set |-> TRUE]]
              ELSE g1
    IN  IF dryrun THEN g2
        ELSE DrawTexture(g2, texture, position, size, blend, origin, color)

\* The variant that never looks the text up: every draw rasterizes and uploads.
FetchOrGenerateTexture_NoLookup(g, a) ==
    LET key == <<a.font.name, a.text>>
        maxWidth == IF a.maxWidth = 0 THEN UnboundedWidth ELSE a.maxWidth
        tempSurface == TTF_RenderText_Blended_Wrapped(a.font, a.text, maxWidth)
        texture == NewTexture(g)
    IN  IF tempSurface.ok
        THEN AddToCache(Emit(Emit(g, "TTF_RenderText", key),
                             "CreateTextureFromSurface", texture),
                        key, texture, tempSurface.w, tempSurface.h)
        ELSE Emit(g, "TTF_RenderText", key)

\* The variant that takes a cached texture only for the native font size.
FetchOrGenerateTexture_PerFontSize(g, a) ==
    IF a.fontSize = 0 /\ g.cache[<<a.font.name, a.text>>].tex # 0
    THEN GetFromCache(g, <<a.font.name, a.text>>)
    ELSE FetchOrGenerateTexture_NoLookup(g, a)

\* DrawText, "first try to fetch texture from cache ... not found in cache?
\* generate it!".  a: [font, text, position, fontSize, maxWidth, origin]
FetchOrGenerateTexture(g, a) ==
    LET key == <<a.font.name, a.text>>
        g2 == GetFromCache(g, key)
        maxWidth == IF a.maxWidth = 0 THEN UnboundedWidth ELSE a.maxWidth
        tempSurface == TTF_RenderText_Blended_Wrapped(a.font, a.text, maxWidth)
        texture == NewTexture(g2)
    IN  IF g2.cache[key].tex = 0
        THEN (IF tempSurface.ok
              THEN AddToCache(Emit(Emit(g2, "TTF_RenderText", key),
                                   "CreateTextureFromSurface", texture),
                              key, texture, tempSurface.w, tempSurface.h)
              ELSE Emit(g2, "TTF_RenderText", key))
        ELSE g2

\* The variant that rounds the scaled extent to the nearest integer.
ScaledExtent_Rounded(extent, fontSize, nativeSize) ==
    IF fontSize # 0
    THEN TruncDiv(2 * extent * fontSize + nativeSize, 2 * nativeSize)
    ELSE extent

\* (int)(extent * sizeFactor), sizeFactor = fontSize ? fontSize / FontSize() : 1
ScaledExtent(extent, fontSize, nativeSize) ==
    IF fontSize # 0 THEN TruncDiv(extent * fontSize, nativeSize) ELSE extent

ImplDrawText(g, a, color, blend, hasOut, dryrun) ==
    LET g1 == UseDefaultTexturesEffect(g, TRUE)
        g3 == FetchOrGenerateTexture(g1, a)
        fromCache == g3.cache[<<a.font.name, a.text>>]
        size == << ScaledExtent(fromCache.w, a.fontSize, a.font.size),
                   ScaledExtent(fromCache.h, a.fontSize, a.font.size) >>
    IN  IF g1.raised # "none" THEN g1
        ELSE DrawTextAsTexture(g3, fromCache.tex, a.position, size, blend,
                               a.origin, color, hasOut, dryrun)

\* The variant that presents and ticks the cache but leaves the effect alone.
UpdateWindow_NoEffectReset(g, evict) ==
    CacheUpdate(Emit(g, "RenderPresent", "screen"), evict)

\* The variant that presents and then resets the device's viewport.
UpdateWindow_ResetsViewport(g, evict) ==
    CacheUpdate(RestoreDefaultEffect(
        Emit([Emit(g, "RenderPresent", "screen") EXCEPT !.vp = ZeroRect],
             "RenderSetViewport", ZeroRect)), evict)

UpdateWindow(g, evict) ==
    CacheUpdate(RestoreDefaultEffect(Emit(g, "RenderPresent", "screen")), evict)

----------------------------------------------------------------------------
(* Gfx: text *)

\* The 3x3 neighbourhood without its centre, in the order of the two loops.
OutlineOffsets ==
    << <<-1, -1>>, <<-1, 0>>, <<-1, 1>>, <<0, -1>>,
       <<0, 1>>, <<1, -1>>, <<1, 0>>, <<1, 1>> >>

\* defaultColor and defaultOutlineColor of Gfx::DrawText
DefaultColor == "White"

DefaultOutlineColor == "Black"

RECURSIVE DrawTextOutline(_, _, _, _, _)
DrawTextOutline(g, a, blend, outlineWidth, n) ==
    IF n > Len(OutlineOffsets) THEN g
    ELSE DrawTextOutline(
             ImplDrawText(Emit(g, "IncreaseCounter", "DrawCalls"),
                          [a EXCEPT !.position =
                              << @[1] + 2 * OutlineOffsets[n][1] * outlineWidth,
                                 @[2] + 2 * OutlineOffsets[n][2] * outlineWidth >>],
                          DefaultOutlineColor, blend, FALSE, FALSE),
             a, blend, outlineWidth, n + 1)

\* The variant that draws the fill first and the outline over it.
GfxDrawText_FillFirst(g, a, blend, outlineWidth) ==
    LET g1 == ImplDrawText(Emit(g, "IncreaseCounter", "DrawCalls"), a, DefaultColor,
                           blend, FALSE, FALSE)
    IN  IF outlineWidth > 0
        THEN DrawTextOutline(g1, a, blend, outlineWidth, 1)
        ELSE g1

GfxDrawText(g, a, blend, outlineWidth) ==
    LET g1 == IF outlineWidth > 0
              THEN DrawTextOutline(g, a, blend, outlineWidth, 1)
              ELSE g
    IN  ImplDrawText(Emit(g1, "IncreaseCounter", "DrawCalls"), a, DefaultColor,
                     blend, FALSE, FALSE)

GfxGetTextBoundingBox(g, a) ==
    ImplDrawText(g, a, "White", "AlphaBlend", TRUE, TRUE)

TextArgs ==
    [font : Fonts, text : Texts, position : Positions, fontSize : FontSizes,
     maxWidth : MaxWidths, origin : Origins]

\* The 50 x 50 text at whole and fractional positions, anchored and not, at
\* its native size, at half of it, and mirrored at half of it.
RectTextArgs ==
    [font : RectFonts, text : RectTexts, position : {<<200, 200>>, <<21, 20>>},
     fontSize : {0, 25, -25}, maxWidth : {0}, origin : {<<1, 2>>, <<0, 0>>}]

\* One font at its native size, unwrapped.
BasicTextArgs ==
    {a \in TextArgs : a.font.name = "small" /\ a.fontSize = 0 /\ a.maxWidth = 0}

\* The same texts with the fontSize the header documents as "use the loaded
\* font asset's default".
DocumentedDefaultTextArgs == {[a EXCEPT !.fontSize = -1] : a \in BasicTextArgs}

----------------------------------------------------------------------------
(* Gfx: images, shapes, per-frame update *)

GfxDrawImage(g, sourceImage, position, size, blend, ub) ==
    ImplDrawImage(Emit(g, "IncreaseCounter", "DrawCalls"), sourceImage, position,
                  size, blend, ub)

GfxDrawImageRect(g, sourceImage, position, size, blend, sourceRect, origin, color, ub) ==
    ImplDrawImageRect(Emit(g, "IncreaseCounter", "DrawCalls"), sourceImage, position,
                      size, blend, sourceRect, origin, color, ub)

GfxDrawLine(g, color, blendMode) ==
    ImplDrawLine(Emit(g, "IncreaseCounter", "DrawCalls"), color, blendMode)

GfxDrawPixel(g, color, blendMode) ==
    ImplDrawPixel(Emit(g, "IncreaseCounter", "DrawCalls"), color, blendMode)

GfxDrawRectangle(g, rect, color, filled, blendMode) ==
    ImplDrawRectangle(Emit(g, "IncreaseCounter", "DrawCalls"), rect, color, filled,
                      blendMode)

GfxDrawCircle(g, center, radius, color, filled, blendMode) ==
    IF filled
    THEN ImplDrawCircleFill(Emit(g, "IncreaseCounter", "DrawCalls"), center, radius,
                            color, blendMode)
    ELSE ImplDrawCircleLines(Emit(g, "IncreaseCounter", "DrawCalls"), center, radius,
                             color, blendMode)

GfxDrawPolygon(g, points, color, blend) == ImplDrawPolygon(g, points, color, blend)

GfxDrawQuad(g, points, color, blend) == ImplDrawQuad(g, points, color, blend)

GfxUpdate(g, evict) == SetEffect(UpdateWindow(g, evict), NullEffect)

----------------------------------------------------------------------------
(* GfxSdlWrapper: window, render target, viewport *)

\* Dispose: the window, and the renderer with its targets and programs.
Dispose(g) ==
    [g EXCEPT !.windowOpen = FALSE,
              !.renderer = FALSE,
              !.windowSize = <<0, 0>>,
              !.target = "screen",
              !.vp = ZeroRect,
              !.program = NullEffect,
              !.bindsOfProgram = 0]

\* What SDL answers to a CreateWindow: window and renderer, no window, or a
\* window and no renderer.
SdlOutcomes == {"ok", "noWindow", "noRenderer"}

\* LoadDefaultProgram / LoadDefaultShapesProgram compile new programs: the
\* uniforms of a newly linked program are zero.  sdl: what SDL answers.
CreateWindow(g, width, height, sdl) ==
    LET w == IF width = 0 THEN DesktopMode[1] ELSE width
        h == IF height = 0 THEN DesktopMode[2] ELSE height
        gen == g.window + 1
    IN  IF sdl = "noWindow" THEN Raise(Dispose(g), "InitializeError")
        ELSE RestoreDefaultEffect(
            [g EXCEPT !.window = gen,
                      !.windowOpen = TRUE,
                      !.renderer = (sdl = "ok"),
                      !.windowSize = <<w, h>>,
                      !.target = "screen",
                      !.vp = ZeroRect,
                      !.program = NullEffect,
                      !.bindsOfProgram = 0,
                      !.extraA = 0,
                      !.defaultEffect = [kind |-> "textures", gen |-> gen],
                      !.defaultEffectShapes = [kind |-> "shapes", gen |-> gen]])

\* The variant that restores the default states only when the target changes.
ImplSetRenderTarget_OnChange(g, target) ==
    LET name == IF target # NullImage THEN target.name ELSE "screen"
        g1 == Emit([g EXCEPT !.target = name], "SetRenderTarget", target.name)
    IN  IF name = g.target THEN g1 ELSE RestoreDefaultStates(g1)

ImplSetRenderTarget(g, target) ==
    RestoreDefaultStates(
        Emit([g EXCEPT !.target = IF target # NullImage THEN target.name ELSE "screen"],
             "SetRenderTarget", target.name))

\* The variant that leaves the device's viewport alone when given null.
ImplSetViewport_NullKeeps(g, vp) ==
    IF vp = ZeroRect THEN Emit(g, "RenderSetViewport", vp)
    ELSE Emit([g EXCEPT !.vp = vp], "RenderSetViewport", vp)

ImplSetViewport(g, vp) ==
    Emit([g EXCEPT !.vp = vp], "RenderSetViewport", vp)

\* The name SDL_SetRenderTarget is given for a target: "null" for the screen.
TargetArg(target) == IF target = "screen" THEN "null" ELSE target

\* The variant that reads the pixels of whatever target is bound.
RenderScreenToImage_ActiveTarget(g) ==
    LET ws == g.windowSize
        g1 == Emit(g, "RenderReadPixels",
                   [target |-> g.target,
                    rect |-> [x |-> 0, y |-> 0, w |-> ws[1], h |-> ws[2]]])
        g2 == Emit(g1, "CreateTextureFromSurface", "screenshot")
    IN  [g2 EXCEPT !.ret = [x |-> 0, y |-> 0, w |-> ws[1], h |-> ws[2], set |-> TRUE]]

\* The new handle's width and height are returned in ret.
RenderScreenToImage(g) ==
    LET target == g.target
        g1 == Emit([g EXCEPT !.target = "screen"], "SetRenderTarget", "null")
        ws == g.windowSize
        g2 == Emit(g1, "RenderReadPixels",
                   [target |-> g1.target,
                    rect |-> [x |-> 0, y |-> 0, w |-> ws[1], h |-> ws[2]]])
        g3 == Emit(g2, "CreateTextureFromSurface", "screenshot")
        g4 == Emit([g3 EXCEPT !.target = target], "SetRenderTarget", TargetArg(target))
    IN  [g4 EXCEPT !.ret = [x |-> 0, y |-> 0, w |-> ws[1], h |-> ws[2], set |-> TRUE]]

----------------------------------------------------------------------------
(* Gfx: derived sizes *)

WindowSize(g) == g.windowSize

RectEmpty(r) == r.w = 0 /\ r.h = 0

\* The variant in which a viewport replaces the render target's size.
RenderableSize_ViewportReplaces(g, rt, vp) ==
    LET r0 == IF rt # NullImage THEN <<rt.w, rt.h>> ELSE <<0, 0>>
        r1 == IF ~RectEmpty(vp) THEN <<vp.w, vp.h>> ELSE r0
        ws == WindowSize(g)
    IN  << IF r1[1] = 0 THEN ws[1] ELSE Min(r1[1], ws[1]),
           IF r1[2] = 0 THEN ws[2] ELSE Min(r1[2], ws[2]) >>

RenderableSize(g, rt, vp) ==
    LET r0 == IF rt # NullImage THEN <<rt.w, rt.h>> ELSE <<0, 0>>
        r1 == IF ~RectEmpty(vp)
              THEN << IF r0[1] = 0 THEN vp.w ELSE Min(r0[1], vp.w),
                      IF r0[2] = 0 THEN vp.h ELSE Min(r0[2], vp.h) >>
              ELSE r0
        ws == WindowSize(g)
    IN  << IF r1[1] = 0 THEN ws[1] ELSE Min(r1[1], ws[1]),
           IF r1[2] = 0 THEN ws[2] ELSE Min(r1[2], ws[2]) >>

\* The variant that clears the whole window when given no rectangle.
GfxClearScreen_WholeWindow(g, rt, vp, color, clearRect) ==
    LET g1 == Emit(g, "IncreaseCounter", "DrawCalls")
        ws == WindowSize(g)
    IN  IF RectEmpty(clearRect)
        THEN ImplClearScreen(g1, color, [x |-> 0, y |-> 0, w |-> ws[1], h |-> ws[2]])
        ELSE ImplClearScreen(g1, color, clearRect)

GfxClearScreen(g, rt, vp, color, clearRect) ==
    LET g1 == Emit(g, "IncreaseCounter", "DrawCalls")
        rs == RenderableSize(g, rt, vp)
    IN  IF RectEmpty(clearRect)
        THEN ImplClearScreen(g1, color, [x |-> 0, y |-> 0, w |-> rs[1], h |-> rs[2]])
        ELSE ImplClearScreen(g1, color, clearRect)

----------------------------------------------------------------------------
(* SDL_ImageHandle: the reading buffer *)

\* The image whose pixels are read.
HandleImage == [name |-> "sprite", w |-> 9, h |-> 4, alpha |-> TRUE]

\* Source rectangles a reading buffer is prepared for; ZeroRect is the
\* default argument (the whole image).
ReadRects == {ZeroRect, [x |-> 7, y |-> 1, w |-> 0, h |-> 2]}

ReadPositions ==
    {<<0, 0>>, <<1, 1>>, <<2, 0>>, <<8, 3>>, <<9, 0>>, <<0, 4>>, <<-1, 0>>, <<0, -1>>}

\* The handle as constructed: no reading buffer (_asSurface = nullptr).  live
\* is the set of surfaces SDL has created and not freed, created how many it
\* has created; fault is what a free or a read of a surface not in live does.
\* prepared records the last of PrepareReadingBuffer / FreeReadingBuffer.
HandleCreated ==
    [alive |-> TRUE, asSurface |-> 0, w |-> 0, h |-> 0,
     live |-> {}, created |-> 0, fault |-> "none", ret |-> "none",
     prepared |-> FALSE]

SDL_FreeSurface(h, surface) ==
    IF surface \in h.live THEN [h EXCEPT !.live = @ \ {surface}]
    ELSE [h EXCEPT !.fault = "doubleFree"]

\* GfxSdlWrapper::TextureToSurface: the texture is bound as render target, the
\* rectangle read into a new surface, the previous target bound again.  The
\* rectangle read is returned in ret.
TextureToSurface(g, texture, width, height, sourceRect) ==
    LET target == g.target
        rect == [x |-> sourceRect.x, y |-> sourceRect.y,
                 w |-> IF sourceRect.w # 0 THEN sourceRect.w ELSE width - sourceRect.x,
                 h |-> IF sourceRect.h # 0 THEN sourceRect.h ELSE height - sourceRect.y]
        g1 == Emit([g EXCEPT !.target = texture], "SetRenderTarget", texture)
        g2 == Emit(g1, "RenderReadPixels", [target |-> g1.target, rect |-> rect])
        g3 == Emit([g2 EXCEPT !.target = target], "SetRenderTarget",
                   IF target = "screen" THEN "null" ELSE target)
    IN  [g3 EXCEPT !.ret = [x |-> rect.x, y |-> rect.y, w |-> rect.w, h |-> rect.h,
                            set |-> TRUE]]

\* GfxSdlWrapper::SaveImageToFile: the texture is bound, read whole into a
\* surface of its size, the surface written and freed, the previous target
\* bound again.
SaveImageToFile(g, texture, width, height) ==
    LET target == g.target
        g1 == Emit([g EXCEPT !.target = texture], "SetRenderTarget", texture)
        g2 == Emit(g1, "RenderReadPixels", [target |-> g1.target, rect |-> "null"])
        g3 == Emit(g2, "IMG_SavePNG", <<width, height>>)
    IN  Emit([g3 EXCEPT !.target = target], "SetRenderTarget", TargetArg(target))

\* GfxSdlWrapper::ClearTexture: with the shapes effect, Opaque and black set,
\* the texture is bound, cleared to transparent, and the previous target and
\* the texture's previous blend mode restored.
ClearTexture(g, texture) ==
    LET prevTarget == g.target
        g1 == SetShapesColor(SetBlendMode(UseDefaultShapesEffect(g, TRUE), "Opaque"),
                             "Black")
        g2 == Emit([g1 EXCEPT !.target = texture], "SetRenderTarget", texture)
        g3 == Emit(Emit(g2, "SetTextureBlendMode", "BLEND"),
                   "RenderClear", [target |-> g2.target, color |-> "TransparentBlack"])
        g4 == Emit([g3 EXCEPT !.target = prevTarget], "SetRenderTarget",
                   TargetArg(prevTarget))
    IN  Emit(g4, "SetTextureBlendMode", "previous")

\* rect: the rectangle TextureToSurface has read into the new surface.
PrepareReadingBuffer(h, rect) ==
    LET h1 == IF h.asSurface # 0 THEN SDL_FreeSurface(h, h.asSurface) ELSE h
    IN  [h1 EXCEPT !.asSurface = h.created + 1,
                   !.live = @ \cup {h.created + 1},
                   !.created = @ + 1,
                   !.w = rect.w, !.h = rect.h]

\* The variant that frees the surface and keeps the pointer to it.
FreeReadingBuffer_KeepsPointer(h) ==
    IF h.asSurface # 0 THEN SDL_FreeSurface(h, h.asSurface) ELSE h

FreeReadingBuffer(h) ==
    IF h.asSurface # 0
    THEN [SDL_FreeSurface(h, h.asSurface) EXCEPT !.asSurface = 0]
    ELSE h

\* The bounds and the pixel are read from the surface: reading a surface that
\* is no longer live is a read of freed memory.
GetPixel(h, position) ==
    IF h.asSurface = 0 THEN [h EXCEPT !.ret = "TransparentBlack"]
    ELSE IF h.asSurface \notin h.live
    THEN [h EXCEPT !.fault = "useAfterFree", !.ret = "garbage"]
    ELSE IF \/ position[1] < 0 \/ position[2] < 0
            \/ position[1] >= h.w \/ position[2] >= h.h
    THEN [h EXCEPT !.ret = "TransparentBlack"]
    ELSE [h EXCEPT !.ret = [surface |-> h.asSurface, pos |-> position]]

\* ~SDL_ImageHandle
DestroyImageHandle(h) ==
    LET h1 == IF h.asSurface # 0 THEN SDL_FreeSurface(h, h.asSurface) ELSE h
    IN  [h1 EXCEPT !.alive = FALSE]

----------------------------------------------------------------------------
(* Engine: the managers *)

\* Manager pointers a caller passes.
ManagerPointers == {"null", "mine"}

\* The variant that refuses the call while the engine is not running.
AssertIfRunning_Inverted(e) ==
    IF ~e.isRunning THEN [e EXCEPT !.raised = "InvalidState"] ELSE e

AssertIfRunning(e) ==
    IF e.isRunning THEN [e EXCEPT !.raised = "InvalidState"] ELSE e

\* A statement that follows a call that may have thrown.
Then(e, after) == IF e.raised # "none" THEN e ELSE after

SetAssetsManager(e, assets) ==
    Then(AssertIfRunning(e), [e EXCEPT !.assetsManager = assets])

SetGfxManager(e, m) ==
    Then(AssertIfRunning(e), [e EXCEPT !.gfxManager = m])

SetSfxManager(e, m) ==
    Then(AssertIfRunning(e), [e EXCEPT !.sfxManager = m])

SetGameManager(e, m) ==
    Then(AssertIfRunning(e), [e EXCEPT !.gameManager = m])

SetInputManager(e, m) ==
    Then(AssertIfRunning(e), [e EXCEPT !.inputManager = m])

SetLogManager(e, m) ==
    Then(AssertIfRunning(e), [e EXCEPT !.logManager = m])

----------------------------------------------------------------------------
(* Single-precision arithmetic, as Sfx.cpp uses it on volumes *)

\* A float is [m, e], the value m * 2^(-e), m an integer of at most 24 bits
\* and its sign.  Results are rounded to nearest, ties to even.
Max(a, b) == IF a > b THEN a ELSE b

Sign(a) == IF a < 0 THEN -1 ELSE 1

\* n / d rounded to the nearest integer, ties to the even one (n >= 0, d > 0).
RoundedDiv(n, d) ==
    LET q == n \div d
        r == n % d
    IN  IF 2 * r > d \/ (2 * r = d /\ q % 2 = 1) THEN q + 1 ELSE q

\* (float)n / 100.0f for an integer n: the 24-bit quotient of n * 2^k by 100
\* (838860800 is 2^23 * 100, 1677721600 is 2^24 * 100).
FloatPercent(n) ==
    IF n = 0 THEN [m |-> 0, e |-> 0]
    ELSE LET a == Abs(n)
             k == CHOOSE j \in 0..30 : /\ 2^j >= (838860800 + a - 1) \div a
                                       /\ 2^j <= 1677721599 \div a
         IN  [m |-> Sign(n) * RoundedDiv(a * 2^k, 100), e |-> k]

\* (float)v * f for an integer v: the exact product rounded to 24 bits.
FloatTimes(v, f) ==
    LET p == Abs(v) * Abs(f.m)
        s == CHOOSE j \in 0..8 : /\ p \div 2^j < 16777216
                                  /\ (j = 0 \/ p \div 2^j >= 8388608)
    IN  IF p = 0 THEN [m |-> 0, e |-> 0]
        ELSE [m |-> Sign(v) * Sign(f.m) * RoundedDiv(p, 2^s), e |-> f.e - s]

\* (int)f: the fraction is cut off, towards zero.
FloatToInt(f) ==
    IF f.e >= 0 THEN Sign(f.m) * (Abs(f.m) \div 2^f.e) ELSE f.m * 2^(-f.e)

----------------------------------------------------------------------------
(* Sfx *)

\* The channel ids that are no channel.
AllChannels == -1

InvalidSoundChannel == -2

\* The channels the backend plays sounds on.
Channels == {0, 1}

MusicVolumes == {0, 40, 100}

MasterVolumes == {0, 50, 53, 100}

\* The channel operations of Sfx.
ChannelOps ==
    {"SetChannelPanning", "SetChannelDistance", "SetChannelVolume", "IsPlaying",
     "StopChannel", "FadeOutChannel"}

\* Sfx before the main loop starts: the audio device is not opened yet.
\* audio is <<>> or holds the properties set; music is <<>> or holds the
\* music volume the backend was given last; log is the sequence of calls the
\* current call made on the audio backend and the diagnostics counter, ret
\* what it returned.  lastVolume and lastMaster record the volume argument of
\* the last SetMusicVolume / PlayMusic and the music argument of the last
\* SetMasterVolume (<<>>: none yet).
SfxConstructed ==
    [isInit |-> FALSE, audio |-> <<>>,
     musicVolume |-> 100,
     masterVolume |-> FloatPercent(100),
     masterMusicVolume |-> FloatPercent(100),
     music |-> <<>>,
     log |-> <<>>, ret |-> <<>>,
     lastVolume |-> <<>>, lastMaster |-> <<>>]

SfxEnter(s) == [s EXCEPT !.log = <<>>, !.ret = <<>>]

SfxEmit(s, name, a) == [s EXCEPT !.log = Append(@, Ev(name, a))]

\* Sfx::_Start
SfxStart(s) ==
    IF ~s.isInit THEN SfxEmit([s EXCEPT !.isInit = TRUE], "InitAudio", s.audio) ELSE s

\* Sfx::SetAudioProperties
SetAudioProperties(s, frequency, format, stereo, audio_chunk_size) ==
    LET props == << [frequency |-> frequency, format |-> format,
                     channels |-> IF stereo THEN 2 ELSE 1,
                     chunk |-> audio_chunk_size] >>
        s1 == SfxEmit([s EXCEPT !.audio = props], "SetAudioProperties", props)
    IN  IF s1.isInit THEN SfxEmit(s1, "InitAudio", props) ELSE s1

\* The variant that scales the volume already scaled by the old master.
SetMasterVolume_Compounds(s, soundEffectsVolume, musicVolume) ==
    LET s1 == [s EXCEPT !.masterVolume = FloatPercent(soundEffectsVolume),
                        !.masterMusicVolume = FloatPercent(musicVolume)]
        calcVol == Max(FloatToInt(FloatTimes(IF s.music = <<>> THEN s.musicVolume
                                             ELSE s.music[1],
                                             s1.masterMusicVolume)), 1)
    IN  SfxEmit([s1 EXCEPT !.music = <<calcVol>>], "SetMusicVolume", calcVol)

\* Sfx::SetMusicVolume
SetMusicVolume(s, volume) ==
    LET calcVol == Max(FloatToInt(FloatTimes(volume, s.masterMusicVolume)), 1)
    IN  SfxEmit([s EXCEPT !.musicVolume = volume, !.music = <<calcVol>>],
                "SetMusicVolume", calcVol)

\* Sfx::PlayMusic
PlayMusic(s, music, volume) ==
    SetMusicVolume(SfxEmit(s, "PlayMusic", music), volume)

\* Sfx::SetMasterVolume
SetMasterVolume(s, soundEffectsVolume, musicVolume) ==
    SetMusicVolume([s EXCEPT !.masterVolume = FloatPercent(soundEffectsVolume),
                             !.masterMusicVolume = FloatPercent(musicVolume)],
                   s.musicVolume)

\* Sfx::SetChannelPanning
SetChannelPanning(s, channel) ==
    IF channel = InvalidSoundChannel THEN s
    ELSE SfxEmit(s, "SetChannelPanning", channel)

\* Sfx::SetChannelDistance
SetChannelDistance(s, channel) ==
    IF channel = InvalidSoundChannel THEN s
    ELSE SfxEmit(s, "SetChannelDistance", channel)

\* Sfx::StopChannel
StopChannel(s, channel) == SfxEmit(s, "StopChannel", channel)

\* Sfx::FadeOutChannel
FadeOutChannel(s, channel) == SfxEmit(s, "FadeOut", channel)

\* Sfx::SetChannelVolume
SetChannelVolume(s, channel, volume) ==
    IF channel = InvalidSoundChannel THEN s
    ELSE SfxEmit(s, "SetVolume",
                 <<channel, Max(FloatToInt(FloatTimes(volume, s.masterVolume)), 1)>>)

\* Sfx::IsPlaying; the backend's answer is not modelled further.
IsPlaying(s, channel) ==
    IF channel = InvalidSoundChannel THEN [s EXCEPT !.ret = <<FALSE>>]
    ELSE [SfxEmit(s, "IsPlaying", channel) EXCEPT !.ret = <<"backend">>]

\* The variant that returns what the backend returned.
PlaySound_ReturnsBackendResult(s, volume, panned, backendRet) ==
    [SfxEmit(SfxEmit(s, "IncreaseCounter", "PlaySoundCalls"), "PlaySound",
             FloatToInt(FloatTimes(volume, s.masterVolume)))
        EXCEPT !.ret = <<backendRet>>]

\* Sfx::PlaySound, without (panned = FALSE) and with panning and distance.
\* backendRet: the channel the backend's PlaySound returns.
PlaySound(s, volume, panned, backendRet) ==
    LET s1 == SfxEmit(SfxEmit(s, "IncreaseCounter", "PlaySoundCalls"), "PlaySound",
                      FloatToInt(FloatTimes(volume, s.masterVolume)))
        s2 == IF panned /\ backendRet >= 0
              THEN SetChannelDistance(SetChannelPanning(s1, backendRet), backendRet)
              ELSE s1
    IN  [s2 EXCEPT !.ret = << IF backendRet # AllChannels THEN backendRet
                              ELSE InvalidSoundChannel >>]

\* A channel operation by its name.
ChannelOp(s, op, channel, volume) ==
    CASE op = "SetChannelPanning" -> SetChannelPanning(s, channel)
      [] op = "SetChannelDistance" -> SetChannelDistance(s, channel)
      [] op = "SetChannelVolume" -> SetChannelVolume(s, channel, volume)
      [] op = "IsPlaying" -> IsPlaying(s, channel)
      [] op = "StopChannel" -> StopChannel(s, channel)
      [] op = "FadeOutChannel" -> FadeOutChannel(s, channel)

----------------------------------------------------------------------------
(* Game: LoadConfig *)

GameConstructed == [calls |-> <<>>, raised |-> "none"]

\* Config assets: parseError is INIReader's ParseError() (0: parsed, -1: the
\* file could not be opened, n > 0: the first bad line); a key is <<v>> with
\* its value, or <<>> when it is not in the file; controls are the keys of the
\* order of the std::set, each with its action.
Configs ==
    {[parseError |-> -1, resolution_x |-> <<>>, resolution_y |-> <<>>,
      stereo |-> <<>>, controls |-> <<>>],
     [parseError |-> 3, resolution_x |-> <<8>>, resolution_y |-> <<6>>,
      stereo |-> <<FALSE>>, controls |-> << <<"a", "left">> >>],
     [parseError |-> 0, resolution_x |-> <<8>>, resolution_y |-> <<6>>,
      stereo |-> <<FALSE>>, controls |-> << <<"a", "left">>, <<"d", "right">> >>],
     [parseError |-> 0, resolution_x |-> <<>>, resolution_y |-> <<>>,
      stereo |-> <<>>, controls |-> <<>>]}

\* ConfigIniHandle::IsValid
IsValid(config) == config.parseError = 0

\* ConfigIniHandle::GetInt / GetBool: the value of the key, or the default.
GetValue(config, name, defaultVal) ==
    IF config[name] = <<>> THEN defaultVal ELSE config[name][1]

GameCalled(w, name) == [w EXCEPT !.game.calls = Append(@, name)]

\* The key binds of the config: Input().SetKeyBind for each, in order.
RECURSIVE SetKeyBinds(_, _, _)
SetKeyBinds(w, controls, i) ==
    IF i > Len(controls) THEN w
    ELSE SetKeyBinds(GameCalled([w EXCEPT !.input = Append(@, controls[i])],
                                "SetKeyBind"),
                     controls, i + 1)

\* The window, audio and key binds parts of LoadConfig.  An exception of the
\* window's creation ends the call.
ApplyConfig(w, config, sdl) ==
    LET resX == GetValue(config, "resolution_x", 900)
        resY == GetValue(config, "resolution_y", 900)
        w1 == GameCalled([w EXCEPT !.gfx = CreateWindow(w.gfx, resX, resY, sdl)],
                         "SetWindowProperties")
        stereo == GetValue(config, "stereo", TRUE)
        w2 == GameCalled([w1 EXCEPT !.sfx = SetAudioProperties(w1.sfx, 22050, "S16LSB",
                                                               stereo, 4096)],
                         "SetAudioProperties")
    IN  IF w1.gfx.raised # "none"
        THEN [w1 EXCEPT !.game.raised = w1.gfx.raised]
        ELSE SetKeyBinds(w2, config.controls, 1)

\* The variant that validates the config after it has applied it.
LoadConfig_ValidatesLast(w, config, sdl) ==
    LET w1 == ApplyConfig(w, config, sdl)
    IN  IF ~IsValid(config) /\ w1.game.raised = "none"
        THEN [w1 EXCEPT !.game.raised = "AssetLoadError"]
        ELSE w1

\* Game::LoadConfig.  w: [gfx, sfx, input, game], the managers it works on.
LoadConfig(w, config, sdl) ==
    IF ~IsValid(config) THEN [w EXCEPT !.game.raised = "AssetLoadError"]
    ELSE ApplyConfig(w, config, sdl)

----------------------------------------------------------------------------
(* UI: the dropdown *)

\* The elements of a dropdown a press lands on and toggles it.
PressTargets == {"SelectedText", "SelectedTextBackground"}

\* A dropdown created and not yet initialised.  drawn is what the last Draw
\* rendered and topLayer the layer flag it passed on, log what the last call
\* did to the list; before is the open and locked state in which the last
\* press found the dropdown.
DropDownCreated ==
    [initialized |-> FALSE, isOpened |-> FALSE, Locked |-> FALSE,
     drawn |-> "nothing", topLayer |-> FALSE, log |-> <<>>,
     before |-> [isOpened |-> FALSE, Locked |-> FALSE]]

\* _UIDropDown::_Init.  locked: the value of Locked after _UIList::_Init; the
\* member has no initialiser and no constructor sets it (UIList.h).
DropDownInit(d, locked) ==
    [d EXCEPT !.initialized = TRUE, !.isOpened = FALSE, !.Locked = locked,
              !.log = <<"CreateImage", "CreateText">>]

\* The variant that locks the list only when it is opened.
ShowDropdownList_LocksWhenOpen(d, show) ==
    [d EXCEPT !.isOpened = show,
              !.log = <<"MarkAsDirty", "RebuildListItems", "UpdateScrollbarMinMax">>,
              !.Locked = show]

\* _UIDropDown::ShowDropdownList
ShowDropdownList(d, show) ==
    [d EXCEPT !.isOpened = show,
              !.log = <<"MarkAsDirty", "RebuildListItems", "UpdateScrollbarMinMax">>,
              !.Locked = ~show]

\* The OnMousePressed callback of SelectedText and SelectedTextBackground.
OnMousePressed(d) == ShowDropdownList(d, ~d.isOpened)

\* _UIDropDown::Draw
DropDownDraw(d, topLayer) ==
    IF d.isOpened
    THEN [d EXCEPT !.drawn = "list", !.topLayer = topLayer, !.log = <<>>]
    ELSE [d EXCEPT !.drawn = "SelectedTextBackground", !.topLayer = topLayer,
                   !.log = <<>>]

----------------------------------------------------------------------------
(* Initial state: the engine is constructed and initialised, no window yet *)

\* GfxSdlWrapper::Initialize; failing: the SDL subsystems that fail to initialize.
Initialize(g, failing) ==
    IF "video" \in failing THEN Raise(g, "InitializeError")
    ELSE IF "ttf" \in failing
    THEN Raise([g EXCEPT !.subsystems = {"video"}], "InitializeError")
    ELSE [g EXCEPT !.subsystems = {"video", "ttf"}]

\* The backend as constructed, before Initialize.
Constructed ==
             [subsystems |-> {},
              windowOpen |-> FALSE,
              renderer |-> FALSE,
              window |-> 0,
              windowSize |-> <<0, 0>>,
              defaultEffect |-> NullEffect,
              defaultEffectShapes |-> NullEffect,
              currentEffect |-> NullEffect,
              program |-> NullEffect,
              bindsOfProgram |-> 0,
              blend |-> "Opaque",
              lastRotation |-> "sentinel",
              lastExtraA |-> FALSE,
              extraA |-> 0,
              shapeColor |-> "none",
              target |-> "screen",
              vp |-> ZeroRect,
              cache |-> [k \in Keys |-> EmptyEntry],
              log |-> <<>>,
              raised |-> "none",
              ret |-> NoRect]

\* Engine.h: the member initialisers.
EngineConstructed ==
    [isRunning |-> FALSE,
     assetsManager |-> "null",
     gfxManager |-> "null",
     sfxManager |-> "null",
     gameManager |-> "null",
     inputManager |-> "null",
     logManager |-> "null",
     raised |-> "none"]

Init ==
    /\ gfx = Initialize(Constructed, {})
    /\ viewport = ZeroRect
    /\ renderTarget = NullImage
    /\ engine = EngineConstructed
    /\ handle = HandleCreated
    /\ sfx = SfxConstructed
    /\ input = <<>>
    /\ game = GameConstructed
    /\ ui = DropDownCreated
    /\ call = [op |-> "Initialize", kind |-> "none", arg |-> "none", opt |-> 0,
               blend |-> "none", filled |-> FALSE, prevOp |-> "other"]

\* The engine object before Engine::Start has initialised its managers.
InitConstructed ==
    /\ gfx = Constructed
    /\ viewport = ZeroRect
    /\ renderTarget = NullImage
    /\ engine = EngineConstructed
    /\ handle = HandleCreated
    /\ sfx = SfxConstructed
    /\ input = <<>>
    /\ game = GameConstructed
    /\ ui = DropDownCreated
    /\ call = [op |-> "Gfx", kind |-> "none", arg |-> "none", opt |-> 0,
               blend |-> "none", filled |-> FALSE, prevOp |-> "other"]

Alive == gfx.raised # "crash"

HaveValidWindow == gfx.windowOpen

\* Initialize has run to its end.
Initialized == gfx.subsystems = {"video", "ttf"}

----------------------------------------------------------------------------
(* Actions: one per facade or backend call.  The parameters are the sets *)
(* the call's arguments are drawn from.                                  *)

\* The record of a call: its name, its argument, further arguments (opt:
\* DrawText's outlineWidth, DrawCircle's radius; blend: a shape's blend mode;
\* filled: a rectangle's or circle's) and, when the call before it had the
\* same argument, the name of that call.
Called(op, kind, arg) ==
    [op |-> op, kind |-> kind, arg |-> arg, opt |-> 0, blend |-> "none",
     filled |-> FALSE,
     prevOp |-> IF call.kind = kind /\ call.arg = arg THEN call.op ELSE "other"]

\* A new call on the engine: nothing raised yet.
EngineEnter == [engine EXCEPT !.raised = "none"]

\* Engine::Start: "Start running the engine".
EngineStart ==
    /\ ~engine.isRunning
    /\ engine' = [EngineEnter EXCEPT !.isRunning = TRUE]
    /\ call' = Called("Start", "none", "none")
    /\ UNCHANGED <<gfxvars, handle, gamevars, ui>>

\* Engine::Stop: "Stop running the engine".
EngineStop ==
    /\ engine.isRunning
    /\ engine' = [EngineEnter EXCEPT !.isRunning = FALSE]
    /\ call' = Called("Stop", "none", "none")
    /\ UNCHANGED <<gfxvars, handle, gamevars, ui>>

\* Engine::Set*Manager
SetManager ==
    /\ \E m \in ManagerPointers :
          \/ /\ engine' = SetAssetsManager(EngineEnter, m)
             /\ call' = Called("SetAssetsManager", "manager", m)
          \/ /\ engine' = SetGfxManager(EngineEnter, m)
             /\ call' = Called("SetGfxManager", "manager", m)
          \/ /\ engine' = SetSfxManager(EngineEnter, m)
             /\ call' = Called("SetSfxManager", "manager", m)
          \/ /\ engine' = SetGameManager(EngineEnter, m)
             /\ call' = Called("SetGameManager", "manager", m)
          \/ /\ engine' = SetInputManager(EngineEnter, m)
             /\ call' = Called("SetInputManager", "manager", m)
          \/ /\ engine' = SetLogManager(EngineEnter, m)
             /\ call' = Called("SetLogManager", "manager", m)
    /\ UNCHANGED <<gfxvars, handle, gamevars, ui>>

\* Gfx::_Initialize -> GfxSdlWrapper::Initialize, once, by Engine::Start.
GfxInitialize ==
    /\ call.op = "Gfx"
    /\ \E failing \in SUBSET {"video", "ttf"} :
          /\ gfx' = Initialize(Enter(gfx), failing)
          /\ call' = Called("Initialize", "none", "none")
    /\ UNCHANGED <<viewport, renderTarget, outside>>

\* Gfx::SetWindowProperties -> GfxSdlWrapper::CreateWindow
SetWindowProperties(requests, outcomes) ==
    /\ Alive
    /\ Initialized
    /\ gfx.window < MaxWindows
    /\ \E req \in requests, sdl \in outcomes :
          /\ gfx' = CreateWindow(Enter(gfx), req[1], req[2], sdl)
          /\ call' = Called("SetWindowProperties", "size", req)
    /\ UNCHANGED <<viewport, renderTarget, outside>>

\* The effect handles a caller can hold: null, and a custom effect asset once
\* a device exists to compile it on.
EffectHandles == {NullEffect} \cup (IF HaveValidWindow THEN CustomEffects ELSE {})

\* Gfx::UseEffect
UseEffect ==
    /\ Alive
    /\ \E effect \in EffectHandles :
          /\ gfx' = SetEffect(Enter(gfx), effect)
          /\ call' = Called("UseEffect", "effect", effect)
    /\ UNCHANGED <<viewport, renderTarget, outside>>

\* GfxSdlWrapper::SetCurrentEffectFromAsset called with a handle directly.
SetCurrentEffect ==
    /\ Alive
    /\ \E effect \in EffectHandles :
          /\ gfx' = SetCurrentEffectFromAsset(Enter(gfx), effect)
          /\ call' = Called("SetCurrentEffectFromAsset", "effect", effect)
    /\ UNCHANGED <<viewport, renderTarget, outside>>

\* Gfx::DrawImage
DrawImage(images, blends) ==
    /\ Alive
    /\ \E image \in images, blend \in blends, ub \in {"crash", "garbage"} :
          /\ image # NullImage => ub = "crash" /\ HaveValidWindow
          /\ gfx' = GfxDrawImage(Enter(gfx), image, <<20, 20>>, <<0, 0>>, blend, ub)
          /\ call' = Called("DrawImage", "image", image)
    /\ UNCHANGED <<viewport, renderTarget, outside>>

\* Gfx::DrawImage with source rectangle and origin
DrawImageRect(images, sizes, sourceRects) ==
    /\ Alive
    /\ HaveValidWindow
    /\ \E image \in images, size \in sizes, sourceRect \in sourceRects,
          origin \in Origins :
          /\ gfx' = GfxDrawImageRect(Enter(gfx), image, <<200, 200>>, size,
                                     "AlphaBlend", sourceRect, origin, "White",
                                     "crash")
          /\ call' = Called("DrawImageRect", "imagerect",
                            [image |-> image, size |-> size,
                             sourceRect |-> sourceRect, origin |-> origin])
    /\ UNCHANGED <<viewport, renderTarget, outside>>

\* Gfx::DrawLine
DrawLine(colors, blends) ==
    /\ Alive
    /\ \E color \in colors, blend \in blends :
          /\ gfx' = GfxDrawLine(Enter(gfx), color, blend)
          /\ call' = [Called("DrawLine", "color", color) EXCEPT !.blend = blend]
    /\ UNCHANGED <<viewport, renderTarget, outside>>

\* Gfx::DrawPixel
DrawPixel(colors, blends) ==
    /\ Alive
    /\ \E color \in colors, blend \in blends :
          /\ gfx' = GfxDrawPixel(Enter(gfx), color, blend)
          /\ call' = [Called("DrawPixel", "color", color) EXCEPT !.blend = blend]
    /\ UNCHANGED <<viewport, renderTarget, outside>>

\* Gfx::DrawText
DrawText(args, outlines) ==
    /\ Alive
    /\ \E a \in args, outlineWidth \in outlines :
          /\ gfx' = GfxDrawText(Enter(gfx), a, "AlphaBlend", outlineWidth)
          /\ call' = [Called("DrawText", "text", a) EXCEPT !.opt = outlineWidth]
    /\ UNCHANGED <<viewport, renderTarget, outside>>

\* Gfx::GetTextBoundingBox
GetTextBoundingBox(args) ==
    /\ Alive
    /\ \E a \in args :
          /\ gfx' = GfxGetTextBoundingBox(Enter(gfx), a)
          /\ call' = Called("GetTextBoundingBox", "text", a)
    /\ UNCHANGED <<viewport, renderTarget, outside>>

\* GfxSdlWrapper::DrawText called for a real draw that reports its rectangle.
BackendDrawText(args) ==
    /\ Alive
    /\ \E a \in args :
          /\ gfx' = ImplDrawText(Enter(gfx), a, "White", "AlphaBlend", TRUE, FALSE)
          /\ call' = Called("BackendDrawText", "text", a)
    /\ UNCHANGED <<viewport, renderTarget, outside>>

\* Gfx::_Update, once per frame of the main loop (which Gfx::_Start precedes).
Update ==
    /\ Alive
    /\ HaveValidWindow
    /\ \E evict \in SUBSET Evictable(gfx) :
          /\ gfx' = GfxUpdate(Enter(gfx), evict)
          /\ call' = Called("Update", "none", "none")
    /\ UNCHANGED <<viewport, renderTarget, outside>>

\* Gfx::SetRenderTarget
SetRenderTarget ==
    /\ Alive
    /\ HaveValidWindow
    /\ \E target \in Images \cup {NullImage} :
          /\ gfx' = ImplSetRenderTarget(Enter(gfx), target)
          /\ renderTarget' = target
          /\ call' = Called("SetRenderTarget", "image", target)
    /\ UNCHANGED <<viewport, outside>>

\* Gfx::SetViewport; ZeroRect stands for the null pointer.
SetViewport ==
    /\ Alive
    /\ HaveValidWindow
    /\ \E vp \in Viewports \cup {ZeroRect} :
          /\ viewport' = vp
          /\ gfx' = ImplSetViewport(Enter(gfx), vp)
          /\ call' = Called("SetViewport", "rect", vp)
    /\ UNCHANGED <<renderTarget, outside>>

\* Gfx::RenderableSize, a query: the state keeps what it returned.
QueryRenderableSize ==
    /\ Alive
    /\ HaveValidWindow
    /\ gfx' = Enter(gfx)
    /\ call' = Called("RenderableSize", "size",
                       RenderableSize(gfx, renderTarget, viewport))
    /\ UNCHANGED <<viewport, renderTarget, outside>>

\* Gfx::CreateImageFromScreen: the new image asset is the call's result.
CreateImageFromScreen ==
    /\ Alive
    /\ HaveValidWindow
    /\ gfx' = RenderScreenToImage(Enter(gfx))
    /\ call' = Called("CreateImageFromScreen", "image",
                       [name |-> "screenshot", w |-> gfx'.ret.w, h |-> gfx'.ret.h,
                        alpha |-> FALSE])
    /\ UNCHANGED <<viewport, renderTarget, outside>>

\* SDL_ImageHandle::PrepareReadingBuffer, called on the handle
ImagePrepareReadingBuffer ==
    /\ Alive
    /\ HaveValidWindow
    /\ handle.alive
    /\ handle.created < MaxBuffers
    /\ \E sourceRect \in ReadRects :
          /\ gfx' = TextureToSurface(Enter(gfx), HandleImage.name, HandleImage.w,
                                      HandleImage.h, sourceRect)
          /\ handle' = [PrepareReadingBuffer([handle EXCEPT !.ret = "none"], gfx'.ret)
                           EXCEPT !.prepared = TRUE]
          /\ call' = Called("PrepareReadingBuffer", "rect", sourceRect)
    /\ UNCHANGED <<viewport, renderTarget, engine, gamevars, ui>>

\* SDL_ImageHandle::FreeReadingBuffer, called on the handle
ImageFreeReadingBuffer ==
    /\ Alive
    /\ handle.alive
    /\ gfx' = Enter(gfx)
    /\ handle' = [FreeReadingBuffer([handle EXCEPT !.ret = "none"])
                     EXCEPT !.prepared = FALSE]
    /\ call' = Called("FreeReadingBuffer", "none", "none")
    /\ UNCHANGED <<viewport, renderTarget, engine, gamevars, ui>>

\* SDL_ImageHandle::GetPixel, called on the handle
ImageGetPixel ==
    /\ Alive
    /\ handle.alive
    /\ \E position \in ReadPositions :
          /\ gfx' = Enter(gfx)
          /\ handle' = GetPixel([handle EXCEPT !.ret = "none"], position)
          /\ call' = Called("GetPixel", "position", position)
    /\ UNCHANGED <<viewport, renderTarget, engine, gamevars, ui>>

\* The image asset is released: the handle is deleted.
ImageRelease ==
    /\ Alive
    /\ handle.alive
    /\ gfx' = Enter(gfx)
    /\ handle' = DestroyImageHandle([handle EXCEPT !.ret = "none"])
    /\ call' = Called("~SDL_ImageHandle", "none", "none")
    /\ UNCHANGED <<viewport, renderTarget, engine, gamevars, ui>>

\* SDL_ImageHandle::SaveToFile, called on the handle of an image
ImageSaveToFile ==
    /\ Alive
    /\ HaveValidWindow
    /\ \E image \in Images :
          /\ gfx' = SaveImageToFile(Enter(gfx), image.name, image.w, image.h)
          /\ call' = Called("SaveToFile", "image", image)
    /\ UNCHANGED <<viewport, renderTarget, outside>>

\* SDL_ImageHandle::Clear, called on the handle of an image
ImageClear ==
    /\ Alive
    /\ HaveValidWindow
    /\ \E image \in Images :
          /\ gfx' = ClearTexture(Enter(gfx), image.name)
          /\ call' = Called("Clear", "image", image)
    /\ UNCHANGED <<viewport, renderTarget, outside>>

\* Sfx::_Start, called when the main loop starts
SfxStarts ==
    /\ Alive
    /\ ~sfx.isInit
    /\ sfx' = SfxStart(SfxEnter(sfx))
    /\ call' = Called("Sfx::_Start", "none", "none")
    /\ UNCHANGED <<gfxvars, engine, handle, input, game, ui>>

\* Sfx::SetMusicVolume
SfxSetMusicVolume ==
    /\ Alive
    /\ \E volume \in MusicVolumes :
          /\ sfx' = [SetMusicVolume(SfxEnter(sfx), volume)
                        EXCEPT !.lastVolume = <<volume>>]
          /\ call' = Called("SetMusicVolume", "volume", volume)
    /\ UNCHANGED <<gfxvars, engine, handle, input, game, ui>>

\* Sfx::PlayMusic
SfxPlayMusic ==
    /\ Alive
    /\ \E volume \in MusicVolumes :
          /\ sfx' = [PlayMusic(SfxEnter(sfx), "track", volume)
                        EXCEPT !.lastVolume = <<volume>>]
          /\ call' = Called("PlayMusic", "volume", volume)
    /\ UNCHANGED <<gfxvars, engine, handle, input, game, ui>>

\* Sfx::SetMasterVolume
SfxSetMasterVolume ==
    /\ Alive
    /\ \E soundEffectsVolume \in {50, 100}, musicVolume \in MasterVolumes :
          /\ sfx' = [SetMasterVolume(SfxEnter(sfx), soundEffectsVolume, musicVolume)
                        EXCEPT !.lastMaster = <<musicVolume>>]
          /\ call' = Called("SetMasterVolume", "volume", musicVolume)
    /\ UNCHANGED <<gfxvars, engine, handle, input, game, ui>>

\* Sfx::PlaySound, both overloads
SfxPlaySound ==
    /\ Alive
    /\ \E panned \in BOOLEAN, backendRet \in Channels \cup {AllChannels} :
          /\ sfx' = PlaySound(SfxEnter(sfx), 100, panned, backendRet)
          /\ call' = [Called("PlaySound", "channel", backendRet)
                          EXCEPT !.filled = panned]
    /\ UNCHANGED <<gfxvars, engine, handle, input, game, ui>>

\* The operations on one channel, with a channel id PlaySound returned or
\* one of the ids that are no channel.
SfxChannelCall ==
    /\ Alive
    /\ \E op \in ChannelOps, channel \in Channels \cup {AllChannels, InvalidSoundChannel} :
          /\ sfx' = ChannelOp(SfxEnter(sfx), op, channel, 100)
          /\ call' = Called(op, "channel", channel)
    /\ UNCHANGED <<gfxvars, engine, handle, input, game, ui>>

\* _UIDropDown::_Init
UIDropDownInit ==
    /\ Alive
    /\ ~ui.initialized
    /\ \E locked \in BOOLEAN :
          /\ ui' = DropDownInit(ui, locked)
          /\ call' = Called("_Init", "none", "none")
    /\ UNCHANGED <<gfxvars, engine, handle, gamevars>>

\* A mouse press on the selected text or on its background.
UIDropDownPress ==
    /\ Alive
    /\ ui.initialized
    /\ \E element \in PressTargets :
          /\ ui' = [OnMousePressed(ui) EXCEPT
                       !.before = [isOpened |-> ui.isOpened, Locked |-> ui.Locked]]
          /\ call' = Called("OnMousePressed", "element", element)
    /\ UNCHANGED <<gfxvars, engine, handle, gamevars>>

\* _UIDropDown::ShowDropdownList
UIShowDropdownList ==
    /\ Alive
    /\ ui.initialized
    /\ \E show \in BOOLEAN :
          /\ ui' = ShowDropdownList(ui, show)
          /\ call' = Called("ShowDropdownList", "show", show)
    /\ UNCHANGED <<gfxvars, engine, handle, gamevars>>

\* _UIDropDown::Draw
UIDropDownDraw ==
    /\ Alive
    /\ ui.initialized
    /\ \E topLayer \in BOOLEAN :
          /\ ui' = DropDownDraw(ui, topLayer)
          /\ call' = Called("Draw", "topLayer", topLayer)
    /\ UNCHANGED <<gfxvars, engine, handle, gamevars>>

\* Game::LoadConfig
GameLoadConfig ==
    /\ Alive
    /\ Initialized
    /\ gfx.window < MaxWindows
    /\ \E config \in Configs, sdl \in {"ok", "noWindow"} :
          LET w == LoadConfig([gfx |-> Enter(gfx), sfx |-> SfxEnter(sfx),
                               input |-> input, game |-> GameConstructed],
                              config, sdl)
          IN  /\ gfx' = w.gfx
              /\ sfx' = w.sfx
              /\ input' = w.input
              /\ game' = w.game
              /\ call' = Called("LoadConfig", "config", config)
    /\ UNCHANGED <<viewport, renderTarget, engine, handle, ui>>

\* Gfx::DrawRectangle
DrawRectangle(colors, blends) ==
    /\ Alive
    /\ \E color \in colors, blend \in blends, filled \in BOOLEAN :
          /\ gfx' = GfxDrawRectangle(Enter(gfx), [x |-> 1, y |-> 1, w |-> 2, h |-> 2],
                                     color, filled, blend)
          /\ call' = [Called("DrawRectangle", "color", color)
                          EXCEPT !.blend = blend, !.filled = filled]
    /\ UNCHANGED <<viewport, renderTarget, outside>>

\* Gfx::DrawCircle
DrawCircle(radii, colors, blends) ==
    /\ Alive
    /\ \E radius \in radii, color \in colors, blend \in blends, filled \in BOOLEAN :
          /\ gfx' = GfxDrawCircle(Enter(gfx), Center, radius, color, filled, blend)
          /\ call' = [Called("DrawCircle", "color", color)
                          EXCEPT !.opt = radius, !.blend = blend, !.filled = filled]
    /\ UNCHANGED <<viewport, renderTarget, outside>>

\* Gfx::DrawPolygon
DrawPolygon(colors, blends) ==
    /\ Alive
    /\ \E color \in colors, blend \in blends :
          /\ gfx' = GfxDrawPolygon(Enter(gfx), Triangle, color, blend)
          /\ call' = [Called("DrawPolygon", "color", color) EXCEPT !.blend = blend]
    /\ UNCHANGED <<viewport, renderTarget, outside>>

\* Gfx::DrawQuad
DrawQuad(colors, blends) ==
    /\ Alive
    /\ \E color \in colors, blend \in blends :
          /\ gfx' = GfxDrawQuad(Enter(gfx), Quad, color, blend)
          /\ call' = [Called("DrawQuad", "color", color) EXCEPT !.blend = blend]
    /\ UNCHANGED <<viewport, renderTarget, outside>>

\* Gfx::ClearScreen
ClearScreen(colors, rects) ==
    /\ Alive
    /\ \E color \in colors, clearRect \in rects :
          /\ gfx' = GfxClearScreen(Enter(gfx), renderTarget, viewport, color, clearRect)
          /\ call' = Called("ClearScreen", "rect", clearRect)
    /\ UNCHANGED <<viewport, renderTarget, outside>>

----------------------------------------------------------------------------
(* Specifications *)

\* The effect state machine under every kind of draw.
Next ==
    \/ SetWindowProperties(WindowRequests, {"ok"})
    \/ UseEffect
    \/ SetCurrentEffect
    \/ DrawImage(Images \cup {NullImage}, BlendModes)
    \/ DrawLine(Colors, BlendModes)
    \/ DrawPixel(Colors, BlendModes)
    \/ DrawText(BasicTextArgs, OutlineWidths)
    \/ GetTextBoundingBox(BasicTextArgs)
    \/ Update

Spec == Init /\ [][Next]_vars

\* Text drawing and the text texture cache, with every text argument.
NextText ==
    \/ SetWindowProperties(WindowRequests, {"ok"})
    \/ DrawText(TextArgs, {0})
    \/ GetTextBoundingBox(TextArgs)
    \/ BackendDrawText(TextArgs)
    \/ Update

SpecText == Init /\ [][NextText]_vars

\* Window, render target and viewport, and the sizes derived from them.
NextSize ==
    \/ SetWindowProperties(WindowSizeRequests, {"ok"})
    \/ SetRenderTarget
    \/ SetViewport
    \/ QueryRenderableSize
    \/ CreateImageFromScreen
    \/ DrawImage(Images, {"AlphaBlend"})
    \/ ClearScreen({"Red"}, ClearRects)
    \/ Update

SpecSize == Init /\ [][NextSize]_vars

\* Every facade operation that draws, and the diagnostics counter.
NextShapes ==
    \/ SetWindowProperties(WindowRequests, {"ok"})
    \/ UseEffect
    \/ DrawImage(Images, {"AlphaBlend"})
    \/ DrawText(BasicTextArgs, SignedOutlineWidths)
    \/ BackendDrawText(DocumentedDefaultTextArgs)
    \/ DrawLine(Colors, BlendModes)
    \/ DrawPixel(Colors, BlendModes)
    \/ DrawRectangle(Colors, BlendModes)
    \/ DrawCircle(Radii, Colors, BlendModes)
    \/ DrawPolygon(Colors, BlendModes)
    \/ DrawQuad(Colors, BlendModes)
    \/ ClearScreen({"Red"}, ClearRects)

SpecShapes == Init /\ [][NextShapes]_vars

\* Destination sizes and rectangles of image and text draws.
NextRect ==
    \/ SetWindowProperties(WindowRequests, {"ok"})
    \/ DrawImage(RectImages, {"AlphaBlend"})
    \/ DrawImageRect(RectImages, Sizes, SourceRects)
    \/ BackendDrawText(RectTextArgs)
    \/ GetTextBoundingBox(RectTextArgs)
    \/ Update

SpecRect == Init /\ [][NextRect]_vars

\* Start-up and window creation with SDL succeeding or failing; drawing on
\* the device once it has a renderer.
NextInit ==
    \/ GfxInitialize
    \/ SetWindowProperties(WindowSizeRequests, SdlOutcomes)
    \/ QueryRenderableSize
    \/ gfx.renderer /\ UseEffect
    \/ gfx.renderer /\ DrawLine(Colors, BlendModes)
    \/ gfx.renderer /\ DrawImage(Images, {"AlphaBlend"})

SpecInit == InitConstructed /\ [][NextInit]_vars

\* The engine's managers replaced before, while and after it runs.
NextEngine ==
    \/ EngineStart
    \/ EngineStop
    \/ SetManager

SpecEngine == InitConstructed /\ [][NextEngine]_vars

\* Circles of every radius, outlined and filled.
NextCircle ==
    \/ SetWindowProperties(WindowRequests, {"ok"})
    \/ DrawImage(Images, {"AlphaBlend"})
    \/ DrawCircle(CircleRadii, {"Red"}, BlendModes)

SpecCircle == Init /\ [][NextCircle]_vars

\* An image's reading buffer prepared, read, freed, and the image released.
NextImage ==
    \/ SetWindowProperties(WindowRequests, {"ok"})
    \/ ImagePrepareReadingBuffer
    \/ ImageFreeReadingBuffer
    \/ ImageGetPixel
    \/ ImageRelease

SpecImage == Init /\ [][NextImage]_vars

\* A custom effect under every kind of draw, across frames and windows.
NextEffect ==
    \/ SetWindowProperties(WindowRequests, {"ok"})
    \/ UseEffect
    \/ Update
    \/ DrawImage(Images, {"AlphaBlend"})
    \/ DrawText(BasicTextArgs, OutlineWidths)
    \/ DrawLine({"Red"}, BlendModes)
    \/ DrawPixel({"Red"}, BlendModes)
    \/ DrawRectangle({"Red"}, {"Opaque"})
    \/ DrawCircle(Radii, {"Red"}, {"Opaque"})
    \/ DrawPolygon({"Red"}, {"Opaque"})
    \/ DrawQuad({"Red"}, {"Opaque"})

SpecEffect == Init /\ [][NextEffect]_vars

\* The render target under the operations that bind another one for a while.
NextTarget ==
    \/ SetWindowProperties(WindowRequests, {"ok"})
    \/ SetRenderTarget
    \/ CreateImageFromScreen
    \/ ImageSaveToFile
    \/ ImageClear
    \/ ImagePrepareReadingBuffer
    \/ DrawImage(Images, {"AlphaBlend"})

SpecTarget == Init /\ [][NextTarget]_vars

\* Configs loaded, before and after the main loop has started.
NextGame ==
    \/ GameLoadConfig
    \/ SfxStarts
    \/ DrawImage(Images, {"AlphaBlend"})

SpecGame == Init /\ [][NextGame]_vars

\* Music and master volumes, sounds and channels.
NextSfx ==
    \/ SfxSetMusicVolume
    \/ SfxPlayMusic
    \/ SfxSetMasterVolume
    \/ SfxPlaySound
    \/ SfxChannelCall

SpecSfx == Init /\ [][NextSfx]_vars

\* A dropdown initialised, pressed, shown, hidden and drawn.
NextUI ==
    \/ UIDropDownInit
    \/ UIDropDownPress
    \/ UIShowDropdownList
    \/ UIDropDownDraw

SpecUI == Init /\ [][NextUI]_vars

----------------------------------------------------------------------------
(* Properties *)

\* Everything of the backend but the record of the running call.
RenderState(g) == Enter(g)

Binds(g) == Count(g.log, {"SetShaderProgram"})

Uploads(g) == Count(g.log, {"CreateTextureFromSurface"})

Rasterizations(g) == Count(g.log, {"TTF_RenderText"})

Primitives(g) ==
    Count(g.log, {"DrawTexture", "RenderDrawPoint", "RenderDrawLine"})

ShapeOps == {"DrawLine", "DrawPixel"}

TextureOps == {"DrawImage", "DrawText"}

DrawOps == ShapeOps \cup TextureOps

SameEffectRequested(op1, op2) ==
    \/ op1 \in ShapeOps /\ op2 \in ShapeOps
    \/ op1 \in TextureOps /\ op2 \in TextureOps

KeyOf(a) == <<a.font.name, a.text>>

\* C1: a draw binds a shader program exactly when the effect it draws with
\* differs from the effect bound before it: a draw that follows a draw
\* requesting the same effect binds nothing, and the program in use has been
\* bound exactly once, however many draws used it.
C1_BindOnlyWhenEffectDiffers ==
    [][call'.op \in DrawOps =>
         /\ Binds(gfx') = (IF gfx'.currentEffect # gfx.currentEffect THEN 1 ELSE 0)
         /\ (call.op \in DrawOps /\ SameEffectRequested(call.op, call'.op))
               => Binds(gfx') = 0
         /\ gfx'.currentEffect # NullEffect
               => gfx'.program = gfx'.currentEffect /\ gfx'.bindsOfProgram = 1]_vars

\* A shape drawn right after a shape: no bind, the shapes effect bound once.
C1_Witness ==
    /\ call.op = "DrawLine" /\ call.prevOp \in ShapeOps
    /\ gfx.raised = "none"
    /\ gfx.currentEffect.kind = "shapes"
    /\ Binds(gfx) = 0 /\ gfx.bindsOfProgram = 1

\* C2: UseEffect(e) with e (null: the default textured effect) already
\* current sends nothing to the device and leaves the whole render state
\* unchanged, and a second UseEffect(e) leaves the state of the first.
C2_UseEffectIdempotent ==
    [][call'.op = "UseEffect" =>
         /\ (IF call'.arg = NullEffect THEN gfx.defaultEffect ELSE call'.arg)
              = gfx.currentEffect
               => /\ gfx'.log = <<>>
                  /\ RenderState(gfx') = RenderState(gfx)
                  /\ viewport' = viewport /\ renderTarget' = renderTarget
         /\ (call.op = "UseEffect" /\ call.arg = call'.arg)
               => gfx'.log = <<>> /\ RenderState(gfx') = RenderState(gfx)]_vars

\* The second of two UseEffect calls with the same custom effect.
C2_Witness ==
    /\ call.op = "UseEffect" /\ call.prevOp = "UseEffect"
    /\ call.arg \in CustomEffects
    /\ gfx.currentEffect = call.arg
    /\ gfx.log = <<>>

\* C3: GetTextBoundingBox uploads no texture and issues no primitive.
C3_DryRunHasNoGpuEffects ==
    call.op = "GetTextBoundingBox" => Uploads(gfx) = 0 /\ Primitives(gfx) = 0

\* C4: a real backend DrawText that follows a dry run with identical
\* arguments reports the rectangle the dry run returned.
C4_DryRunRectEqualsRealRect ==
    [][(/\ call.op = "GetTextBoundingBox" /\ call'.op = "BackendDrawText"
        /\ call'.arg = call.arg)
          => /\ gfx'.ret = gfx.ret
             /\ gfx'.raised = "none" => gfx'.ret.set]_vars

\* A wrapped, scaled, anchored text measured and then drawn.
C4_Witness ==
    /\ call.op = "BackendDrawText" /\ call.prevOp = "GetTextBoundingBox"
    /\ call.arg.text = "Hi" /\ call.arg.fontSize = 3 /\ call.arg.maxWidth = 3
    /\ gfx.ret.set /\ gfx.ret.w > 0
    /\ Count(gfx.log, {"DrawTexture"}) = 1

RealTextOps == {"DrawText", "BackendDrawText"}

\* Two real draws of the same (font, text) in a row, both carried out.
TwoDrawsOfOneText ==
    /\ call.op \in RealTextOps /\ call'.op \in RealTextOps
    /\ KeyOf(call'.arg) = KeyOf(call.arg)
    /\ gfx.raised = "none" /\ gfx'.raised = "none"

\* The second draw takes the texture the first one left in the cache.
SecondDrawReuses ==
    /\ Rasterizations(gfx') = 0 /\ Uploads(gfx') = 0
    /\ gfx.cache[KeyOf(call'.arg)].tex # 0
    /\ gfx'.cache[KeyOf(call'.arg)].tex = gfx.cache[KeyOf(call'.arg)].tex
    /\ \A i \in 1..Len(gfx'.log) :
          gfx'.log[i].ev = "DrawTexture"
             => gfx'.log[i].arg.tex = gfx.cache[KeyOf(call'.arg)].tex

\* C5 as stated: the second of two draws of the same (font, text) rasterizes
\* and uploads nothing, finds the entry and uses the first draw's texture.
C5_SecondDrawReusesTexture ==
    [][TwoDrawsOfOneText => SecondDrawReuses]_vars

\* C5 amended: so it is when the first draw obtained a texture; a text that
\* cannot be rasterized (the empty text) is never cached: every draw of it
\* attempts the rasterization again and uploads nothing.
C5_RasterizedTextDrawnOnce ==
    [][TwoDrawsOfOneText =>
         IF gfx.cache[KeyOf(call'.arg)].tex # 0
         THEN SecondDrawReuses
         ELSE /\ call'.arg.text = ""
              /\ Rasterizations(gfx') = 1 /\ Uploads(gfx') = 0
              /\ gfx'.cache[KeyOf(call'.arg)].tex = 0]_vars

\* The second draw of "Hi" with the same arguments.
C5_Witness ==
    /\ call.op = "DrawText" /\ call.prevOp \in RealTextOps
    /\ call.arg.text = "Hi"
    /\ gfx.raised = "none"
    /\ Uploads(gfx) = 0 /\ Count(gfx.log, {"DrawTexture"}) = 1
    /\ gfx.cache[KeyOf(call.arg)].tex # 0

TextOps == {"DrawText", "BackendDrawText", "GetTextBoundingBox"}

\* C6: a text call for a cached (font, text) rasterizes and uploads nothing
\* whatever fontSize and maxWidth it asks for and leaves every entry's texture
\* and measured size as they were; fontSize only scales the rectangle.
C6_FontSizeNeverRerasterizes ==
    [][(/\ call'.op \in TextOps /\ gfx'.raised = "none"
        /\ gfx.cache[KeyOf(call'.arg)].tex # 0)
          => /\ Rasterizations(gfx') = 0 /\ Uploads(gfx') = 0
             /\ \A k \in Keys :
                   /\ gfx'.cache[k].tex = gfx.cache[k].tex
                   /\ gfx'.cache[k].w = gfx.cache[k].w
                   /\ gfx'.cache[k].h = gfx.cache[k].h
             /\ gfx'.ret.set
                   => /\ gfx'.ret.w = ScaledExtent(gfx.cache[KeyOf(call'.arg)].w,
                                                   call'.arg.fontSize,
                                                   call'.arg.font.size)
                      /\ gfx'.ret.h = ScaledExtent(gfx.cache[KeyOf(call'.arg)].h,
                                                   call'.arg.fontSize,
                                                   call'.arg.font.size)]_vars

\* "Hi" measured 4 x 2 at the font's size 2, drawn 6 x 3 at size 3 from the cache.
C6_Witness ==
    /\ call.op = "BackendDrawText"
    /\ call.arg.font.name = "small" /\ call.arg.text = "Hi" /\ call.arg.fontSize = 3
    /\ gfx.raised = "none"
    /\ Rasterizations(gfx) = 0 /\ Uploads(gfx) = 0
    /\ gfx.cache[KeyOf(call.arg)].w = 4 /\ gfx.cache[KeyOf(call.arg)].h = 2
    /\ gfx.ret.w = 6 /\ gfx.ret.h = 3

\* C7: DrawImage with a null image raises nothing, issues no primitive and
\* does not increase the DrawCalls counter.
C7_NullImageSilentlySkipped ==
    (call.op = "DrawImage" /\ call.arg = NullImage)
        => /\ gfx.raised = "none"
           /\ Primitives(gfx) = 0
           /\ Count(gfx.log, {"IncreaseCounter"}) = 0

C9_UseEffectNullSetsDefault ==
    (call.op = "UseEffect" /\ call.arg = NullEffect)
        => /\ gfx.raised = "none"
           /\ gfx.currentEffect.kind = "textures"
           /\ gfx.currentEffect = gfx.defaultEffect

SetMin(S) == CHOOSE m \in S : \A x \in S : m <= x

\* The sizes that bound the renderable area.
BoundingSizes ==
    {gfx.windowSize}
        \cup (IF renderTarget # NullImage
              THEN {<<renderTarget.w, renderTarget.h>>} ELSE {})
        \cup (IF viewport.w # 0 /\ viewport.h # 0
              THEN {<<viewport.w, viewport.h>>} ELSE {})

\* C10: RenderableSize is, per axis, the minimum of the window size, the render
\* target's size when one is set and the viewport's size when one is set.
C10_RenderableSizeIsMinimum ==
    HaveValidWindow =>
        LET rs == RenderableSize(gfx, renderTarget, viewport)
        IN  /\ rs = << SetMin({s[1] : s \in BoundingSizes}),
                       SetMin({s[2] : s \in BoundingSizes}) >>
            /\ call.op = "RenderableSize" => call.arg = rs
            /\ (renderTarget = NullImage /\ viewport = ZeroRect)
                  => rs = gfx.windowSize
            /\ (/\ gfx.windowSize = <<8, 6>> /\ renderTarget = NullImage
                /\ viewport.w = 4 /\ viewport.h = 3) => rs = <<4, 3>>
            /\ (/\ gfx.windowSize = <<8, 6>> /\ renderTarget.name = "tile"
                /\ viewport = ZeroRect) => rs = <<2, 2>>

\* Window 8 x 6, target 9 x 4, viewport 10 x 5: the window bounds X, the target Y.
C10_Witness ==
    /\ call.op = "RenderableSize"
    /\ gfx.windowSize = <<8, 6>>
    /\ renderTarget.name = "sprite"
    /\ viewport.w = 10 /\ viewport.h = 5
    /\ call.arg = <<8, 4>>

\* The commands of the given kind the call has sent, in order.
Sent(g, name) == SelectSeq(g.log, LAMBDA e : e.ev = name)

\* C11: ClearScreen given the empty rectangle fills exactly the rectangle
\* (0, 0, X, Y) with (X, Y) the renderable size of the state it is called in
\* (the per-axis minimum of window, render target and viewport); given
\* another rectangle it fills that rectangle.  One opaque filled quad either way.
C11_ClearsRenderableArea ==
    [][(call'.op = "ClearScreen" /\ gfx'.raised = "none")
          => /\ Len(Sent(gfx', "DrawQuad")) = 1
             /\ Sent(gfx', "DrawQuad")[1].arg.filled
             /\ gfx'.blend = "Opaque"
             /\ Sent(gfx', "DrawQuad")[1].arg.rect =
                   IF call'.arg = ZeroRect
                   THEN [x |-> 0, y |-> 0,
                         w |-> SetMin({s[1] : s \in BoundingSizes}),
                         h |-> SetMin({s[2] : s \in BoundingSizes})]
                   ELSE call'.arg]_vars

\* Cleared with no rectangle while a 9 x 4 target and a 4 x 3 viewport are set
\* in an 8 x 6 window: the quad is 4 x 3, not the window.
C11_Witness ==
    /\ call.op = "ClearScreen" /\ call.arg = ZeroRect
    /\ gfx.raised = "none"
    /\ gfx.windowSize = <<8, 6>>
    /\ renderTarget.name = "sprite"
    /\ viewport.w = 4 /\ viewport.h = 3
    /\ Len(Sent(gfx, "DrawQuad")) = 1
    /\ Sent(gfx, "DrawQuad")[1].arg.rect = [x |-> 0, y |-> 0, w |-> 4, h |-> 3]

\* C12: every SetRenderTarget, to an image or to the screen, the same target
\* as before or another, sends the target switch, then the blend mode Opaque,
\* then the dummy point at (-1, -1), and nothing else; the blend mode it
\* leaves is Opaque.
C12_TargetSwitchRestoresDefaults ==
    [][call'.op = "SetRenderTarget"
          => /\ gfx'.raised = "none"
             /\ gfx'.log = << Ev("SetRenderTarget", call'.arg.name),
                              Ev("SetBlendMode", "Opaque"),
                              Ev("RenderDrawPoint", <<-1, -1>>) >>
             /\ gfx'.blend = "Opaque"
             /\ gfx'.target = (IF call'.arg = NullImage THEN "screen"
                               ELSE call'.arg.name)]_vars

\* The target set a second time to the image it already is.
C12_Witness ==
    /\ call.op = "SetRenderTarget" /\ call.prevOp = "SetRenderTarget"
    /\ call.arg.name = "tile" /\ gfx.target = "tile"
    /\ Len(Sent(gfx, "SetBlendMode")) = 1
    /\ Len(Sent(gfx, "RenderDrawPoint")) = 1

\* C13: a per-frame update sends the present first and the text cache's
\* Update last, one of each; in between it binds the default textured effect
\* when another effect was current, and nothing otherwise; the effect current
\* after it is the default textured effect.
C13_PresentResetsEffectThenCache ==
    [][call'.op = "Update"
          => /\ gfx'.raised = "none"
             /\ Len(Sent(gfx', "RenderPresent")) = 1
             /\ gfx'.log[1].ev = "RenderPresent"
             /\ Len(Sent(gfx', "CacheUpdate")) = 1
             /\ gfx'.log[Len(gfx'.log)].ev = "CacheUpdate"
             /\ Binds(gfx') = (IF gfx.currentEffect # gfx.defaultEffect THEN 1 ELSE 0)
             /\ \A i \in 1..Len(gfx'.log) :
                   gfx'.log[i].ev = "SetShaderProgram"
                      => gfx'.log[i].arg = gfx.defaultEffect
             /\ gfx'.currentEffect = gfx'.defaultEffect
             /\ gfx'.currentEffect.kind = "textures"
             /\ gfx'.program = gfx'.defaultEffect]_vars

\* A frame ends with another effect current: present, bind of the default
\* textured effect with its state restore, cache update.
C13_Witness ==
    /\ call.op = "Update"
    /\ Len(gfx.log) = 5
    /\ gfx.log[1].ev = "RenderPresent"
    /\ gfx.log[2] = Ev("SetShaderProgram", gfx.defaultEffect)
    /\ gfx.log[5].ev = "CacheUpdate"
    /\ gfx.currentEffect = gfx.defaultEffect

\* The value 'extra_a' must have for the draw the state results from.
RequiredExtraA ==
    IF call.op = "DrawImage" /\ ~call.arg.alpha THEN 1 ELSE 0

\* C14: when an image or a text has been drawn through the default textured
\* effect, the effect's 'extra_a' is 1 for an image without alpha channel and
\* 0 otherwise.
C14_ExtraAlphaMatchesImage ==
    (/\ call.op \in {"DrawImage", "DrawText"}
     /\ call.arg # NullImage
     /\ gfx.raised = "none"
     /\ gfx.currentEffect = gfx.defaultEffect
     /\ Len(Sent(gfx, "DrawTexture")) > 0)
        => gfx.extraA = RequiredExtraA

TexturedOps == {"DrawImage", "DrawText", "GetTextBoundingBox"}

\* The 'extra_a' a call's draws require.
NeedOf(c) == IF c.op = "DrawImage" /\ ~c.arg.alpha THEN 1 ELSE 0

\* C15: a draw through the default textured effect writes 'extra_a' once, with
\* the value it requires, when that value differs from the last one written
\* (0 before any write), and does not write it otherwise; a draw through
\* another effect never writes it; so the second of two consecutive draws
\* requiring the same value writes nothing.
C15_ExtraAlphaWrittenOnEdges ==
    [][(/\ call'.op \in TexturedOps
        /\ call'.arg # NullImage
        /\ gfx'.raised = "none")
          => /\ Sent(gfx', "SetUniformFloat") =
                   (IF /\ gfx'.currentEffect = gfx'.defaultEffect
                       /\ NeedOf(call') # (IF gfx.lastExtraA THEN 1 ELSE 0)
                    THEN << Ev("SetUniformFloat", NeedOf(call')) >>
                    ELSE << >>)
             /\ (/\ call.op \in TexturedOps
                 /\ call.arg # NullImage
                 /\ gfx.raised = "none"
                 /\ gfx.currentEffect = gfx.defaultEffect
                 /\ NeedOf(call) = NeedOf(call'))
                   => Sent(gfx', "SetUniformFloat") = << >>]_vars

\* An image without alpha drawn right after itself: 'extra_a' stays 1, unwritten.
C15_Witness ==
    /\ call.op = "DrawImage" /\ call.prevOp = "DrawImage"
    /\ call.arg.name = "tile"
    /\ gfx.raised = "none"
    /\ gfx.currentEffect = gfx.defaultEffect
    /\ gfx.extraA = 1
    /\ Len(Sent(gfx, "DrawTexture")) = 1
    /\ Sent(gfx, "SetUniformFloat") = << >>

FacadeDrawOps ==
    {"DrawImage", "DrawText", "DrawLine", "DrawPixel", "DrawRectangle",
     "DrawCircle", "DrawPolygon", "DrawQuad", "ClearScreen"}

PrimitiveCommands ==
    {"DrawTexture", "RenderDrawPoint", "RenderDrawLine", "DrawQuad", "DrawPolygon"}

\* C16: a facade draw operation that has issued a primitive has increased
\* the DrawCalls counter at least once.
C16_EveryPrimitiveCounted ==
    (call.op \in FacadeDrawOps /\ Count(gfx.log, PrimitiveCommands) > 0)
        => Count(gfx.log, {"IncreaseCounter"}) >= 1

\* The positions of the 3 x 3 neighbourhood of p at distance w, p left out
\* (positions are in half units).
Neighbourhood(p, w) ==
    {<<p[1] + 2 * i * w, p[2] + 2 * j * w>> : i \in -1..1, j \in -1..1} \ {p}

\* C17: DrawText with outlineWidth > 0 draws the text 9 times: first 8 times
\* in the outline colour, once at each of the 8 neighbours of the position at
\* distance outlineWidth, then once in the fill colour at the position
\* itself; with outlineWidth <= 0 it draws the fill alone.
C17_OutlineBeforeFill ==
    [][(call'.op = "DrawText" /\ gfx'.raised = "none")
          => LET draws == Sent(gfx', "DrawTexture")
                 p == call'.arg.position
                 n == Len(draws)
             IN  /\ n = (IF call'.opt > 0 THEN 9 ELSE 1)
                 /\ Count(gfx'.log, {"IncreaseCounter"}) = n
                 /\ draws[n].arg.pos = p
                 /\ draws[n].arg.color = "White"
                 /\ \A k \in 1..(n - 1) : draws[k].arg.color = "Black"
                 /\ {draws[k].arg.pos : k \in 1..(n - 1)} =
                       (IF call'.opt > 0 THEN Neighbourhood(p, call'.opt) ELSE {})
                 /\ call'.opt > 0 =>
                       Cardinality({draws[k].arg.pos : k \in 1..8}) = 8]_vars

\* "Hi" at (10, 10) with outline width 2: the first outline draw at (8, 8),
\* the last at (12, 12), the fill ninth.
C17_Witness ==
    /\ call.op = "DrawText" /\ call.opt = 2 /\ call.arg.text = "Hi"
    /\ gfx.raised = "none"
    /\ Len(Sent(gfx, "DrawTexture")) = 9
    /\ Sent(gfx, "DrawTexture")[1].arg.pos = <<16, 16>>
    /\ Sent(gfx, "DrawTexture")[8].arg.pos = <<24, 24>>
    /\ Sent(gfx, "DrawTexture")[9].arg.pos = <<20, 20>>

\* The size one axis is drawn at.
AxisSize(requested, rectExtent, natural) ==
    IF requested # 0 THEN requested
    ELSE IF rectExtent # 0 THEN rectExtent ELSE natural

\* C18: an image is drawn at the size resolved per axis: a requested extent
\* other than 0 as it is, a requested 0 as the source rectangle's extent on
\* that axis when a source rectangle is given and the extent is not 0, and as
\* the image's own extent otherwise.  Size (0, 0), no source rectangle, image
\* 64 x 48: drawn 64 x 48.
C18_SizeDefaultsPerAxis ==
    [][(call'.op \in {"DrawImage", "DrawImageRect"} /\ gfx'.raised = "none")
          => LET rect == call'.op = "DrawImageRect"
                 img == IF rect THEN call'.arg.image ELSE call'.arg
                 req == IF rect THEN call'.arg.size ELSE <<0, 0>>
                 src == IF rect THEN call'.arg.sourceRect ELSE ZeroRect
                 draws == Sent(gfx', "DrawTexture")
             IN  /\ Len(draws) = 1
                 /\ draws[1].arg.size = << AxisSize(req[1], src.w, img.w),
                                           AxisSize(req[2], src.h, img.h) >>
                 /\ (/\ req = <<0, 0>> /\ src = ZeroRect
                     /\ img.w = 64 /\ img.h = 48)
                       => draws[1].arg.size = <<64, 48>>]_vars

\* Size (0, 7) with a 3 x 6 source rectangle of the 64 x 48 image: drawn 3 x 7.
C18_Witness ==
    /\ call.op = "DrawImageRect"
    /\ call.arg.image.name = "photo"
    /\ call.arg.size = <<0, 7>>
    /\ call.arg.sourceRect.w = 3 /\ call.arg.sourceRect.h = 6
    /\ gfx.raised = "none"
    /\ Len(Sent(gfx, "DrawTexture")) = 1
    /\ Sent(gfx, "DrawTexture")[1].arg.size = <<3, 7>>

IntegerPart(measured, fontSize, nativeSize) ==
    (measured * fontSize) \div nativeSize

C21_MinusOneDrawsAtNativeSize ==
    (/\ call.op = "BackendDrawText" /\ call.arg.fontSize = -1
     /\ gfx.raised = "none"
     /\ Len(Sent(gfx, "DrawTexture")) = 1)
        => /\ Sent(gfx, "DrawTexture")[1].arg.size =
                 << gfx.cache[KeyOf(call.arg)].w, gfx.cache[KeyOf(call.arg)].h >>
           /\ gfx.ret.w = gfx.cache[KeyOf(call.arg)].w
           /\ gfx.ret.h = gfx.cache[KeyOf(call.arg)].h

\* C22: SetViewport(null) sends the null viewport to the device, which then
\* draws to the full target, and leaves the facade's viewport empty; the
\* renderable size after it is the one of the same window and render target
\* with no viewport, whatever viewport was set before; and no SetViewport
\* changes the window or the render target, so that is the size there was
\* before the viewport was set.
C22_NullViewportRestoresFullTarget ==
    [][call'.op = "SetViewport"
          => /\ gfx'.raised = "none"
             /\ gfx'.windowSize = gfx.windowSize
             /\ renderTarget' = renderTarget /\ gfx'.target = gfx.target
             /\ RenderableSize(gfx', renderTarget', ZeroRect)
                    = RenderableSize(gfx, renderTarget, ZeroRect)
             /\ call'.arg = ZeroRect
                   => /\ gfx'.log = << Ev("RenderSetViewport", ZeroRect) >>
                      /\ gfx'.vp = ZeroRect
                      /\ viewport' = ZeroRect
                      /\ RenderableSize(gfx', renderTarget', viewport')
                            = RenderableSize(gfx, renderTarget, ZeroRect)
                      /\ RenderableSize(gfx', renderTarget', viewport')
                            = << IF renderTarget = NullImage THEN gfx.windowSize[1]
                                 ELSE Min(renderTarget.w, gfx.windowSize[1]),
                                 IF renderTarget = NullImage THEN gfx.windowSize[2]
                                 ELSE Min(renderTarget.h, gfx.windowSize[2]) >>]_vars

\* The viewport reset while the 9 x 4 image is the target of an 8 x 6 window:
\* the renderable size is 8 x 4 again.
C22_Witness ==
    /\ call.op = "SetViewport" /\ call.arg = ZeroRect
    /\ gfx.log = << Ev("RenderSetViewport", ZeroRect) >>
    /\ gfx.vp = ZeroRect /\ viewport = ZeroRect
    /\ gfx.windowSize = <<8, 6>> /\ renderTarget.name = "sprite"
    /\ RenderableSize(gfx, renderTarget, viewport) = <<8, 4>>

\* C23: CreateImageFromScreen binds the screen, reads the rectangle
\* (0, 0, window width, window height) while the screen is bound, and binds
\* the target that was bound before again; the new image has the window's
\* width and height, whatever render target and viewport are set, and the
\* call leaves target and viewport as they were.
C23_ScreenCaptureReadsScreen ==
    [][call'.op = "CreateImageFromScreen"
          => LET reads == Sent(gfx', "RenderReadPixels")
                 window == [x |-> 0, y |-> 0,
                            w |-> gfx.windowSize[1], h |-> gfx.windowSize[2]]
             IN  /\ gfx'.raised = "none"
                 /\ Len(reads) = 1
                 /\ reads[1].arg = [target |-> "screen", rect |-> window]
                 /\ gfx'.log[1] = Ev("SetRenderTarget", "null")
                 /\ gfx'.log[Len(gfx'.log)] =
                        Ev("SetRenderTarget", IF gfx.target = "screen" THEN "null"
                                              ELSE gfx.target)
                 /\ call'.arg.w = gfx.windowSize[1]
                 /\ call'.arg.h = gfx.windowSize[2]
                 /\ gfx'.target = gfx.target /\ gfx'.vp = gfx.vp
                 /\ gfx'.windowSize = gfx.windowSize
                 /\ renderTarget' = renderTarget /\ viewport' = viewport]_vars

\* The 8 x 6 window captured while the 2 x 2 image is the render target and a
\* 4 x 3 viewport is set.
C23_Witness ==
    /\ call.op = "CreateImageFromScreen"
    /\ gfx.windowSize = <<8, 6>>
    /\ renderTarget.name = "tile" /\ gfx.target = "tile"
    /\ viewport.w = 4 /\ viewport.h = 3
    /\ call.arg.w = 8 /\ call.arg.h = 6
    /\ Sent(gfx, "RenderReadPixels")[1].arg.target = "screen"

\* C24: an Initialize that leaves the SDL video or font subsystem
\* uninitialised has raised InitializeError, and a SetWindowProperties that
\* leaves the backend without window or without renderer has raised
\* InitializeError.
C24_InitFailuresRaiseInitializeError ==
    /\ (call.op = "Initialize" /\ gfx.subsystems # {"video", "ttf"})
          => gfx.raised = "InitializeError"
    /\ (call.op = "SetWindowProperties" /\ ~(gfx.windowOpen /\ gfx.renderer))
          => gfx.raised = "InitializeError"

\* The manager pointers of an engine record.
Managers(e) ==
    [e EXCEPT !.isRunning = FALSE, !.raised = "none"]

\* The field each setter writes.
FieldOf ==
    [SetAssetsManager |-> "assetsManager", SetGfxManager |-> "gfxManager",
     SetSfxManager |-> "sfxManager", SetGameManager |-> "gameManager",
     SetInputManager |-> "inputManager", SetLogManager |-> "logManager"]

\* C25: each of the six Set*Manager calls, while the engine is running, raises
\* InvalidState and leaves every manager pointer as it was; while the engine
\* is not running it raises nothing, makes its own manager the pointer given
\* and leaves the other five alone.  No call changes whether the engine runs.
C25_ManagersReplacedOnlyBeforeStart ==
    [][call'.op \in DOMAIN FieldOf
          => /\ engine'.isRunning = engine.isRunning
             /\ IF engine.isRunning
                THEN /\ engine'.raised = "InvalidState"
                     /\ Managers(engine') = Managers(engine)
                ELSE /\ engine'.raised = "none"
                     /\ Managers(engine') =
                           [Managers(engine) EXCEPT ![FieldOf[call'.op]] = call'.arg]]_vars

\* SetGfxManager refused while the engine runs: the manager set before the
\* start is still there.
C25_Witness ==
    /\ call.op = "SetGfxManager" /\ call.arg = "null"
    /\ engine.isRunning
    /\ engine.raised = "InvalidState"
    /\ engine.gfxManager = "mine"

\* The effect a UseEffect / SetCurrentEffectFromAsset call asks for.
Requested(c, g) == IF c.arg = NullEffect THEN g.defaultEffect ELSE c.arg

\* C26: a UseEffect or SetCurrentEffectFromAsset call that asks for another
\* effect than the current one binds it, leaves the rotation/anchor memo at
\* its sentinel, sets the blend mode Opaque and draws the dummy point, in that
\* order and nothing else; one that asks for the current effect sends nothing
\* and leaves memo and blend mode as they were.  In every call, draws and
\* frame updates included, each bind of a program is followed at once by the
\* blend mode Opaque and the dummy point.
C26_SwitchResetsMemoAndStates ==
    [][/\ (call'.op \in {"UseEffect", "SetCurrentEffectFromAsset"}
            /\ gfx'.raised = "none")
              => IF Requested(call', gfx) # gfx.currentEffect
                 THEN /\ gfx'.currentEffect = Requested(call', gfx)
                      /\ gfx'.lastRotation = "sentinel"
                      /\ gfx'.blend = "Opaque"
                      /\ gfx'.log = << Ev("SetShaderProgram", Requested(call', gfx)),
                                       Ev("SetBlendMode", "Opaque"),
                                       Ev("RenderDrawPoint", <<-1, -1>>) >>
                 ELSE /\ gfx'.log = << >>
                      /\ gfx'.lastRotation = gfx.lastRotation
                      /\ gfx'.blend = gfx.blend
                      /\ gfx'.currentEffect = gfx.currentEffect
       /\ \A i \in 1..Len(gfx'.log) :
             gfx'.log[i].ev = "SetShaderProgram"
                => /\ i + 2 <= Len(gfx'.log)
                   /\ gfx'.log[i + 1] = Ev("SetBlendMode", "Opaque")
                   /\ gfx'.log[i + 2] = Ev("RenderDrawPoint", <<-1, -1>>)
       /\ (gfx'.currentEffect # gfx.currentEffect
            /\ Count(gfx'.log, {"DrawTexture"}) = 0)
              => gfx'.lastRotation = "sentinel"]_vars

\* A custom effect taken into use: bind, Opaque, dummy point; the memo at its
\* sentinel.
C26_Witness ==
    /\ call.op = "UseEffect" /\ call.arg \in CustomEffects
    /\ gfx.raised = "none"
    /\ gfx.currentEffect = call.arg
    /\ gfx.lastRotation = "sentinel"
    /\ gfx.blend = "Opaque"
    /\ Len(gfx.log) = 3 /\ gfx.log[1].ev = "SetShaderProgram"

ShapeCalls ==
    {"DrawLine", "DrawPixel", "DrawRectangle", "DrawCircle", "DrawPolygon", "DrawQuad"}

ShapePrimitives == {"RenderDrawLine", "RenderDrawPoint", "DrawQuad", "DrawPolygon"}

\* What a call sent to the device: its log without the diagnostics counter.
ToDevice(g) == SelectSeq(g.log, LAMBDA e : e.ev # "IncreaseCounter")

\* C27: a shape call that raises nothing sends, in this order: the switch to
\* the shapes effect with its state restore when the default textured effect
\* was current (and nothing when another effect was), the blend mode of the
\* call, the shape_color of the call, and then its primitives and nothing
\* else; blend mode and shape_color are those of the call when the
\* primitives are issued and when the call ends.
C27_ShapeDrawnWithOwnColorAndBlend ==
    [][(call'.op \in ShapeCalls /\ gfx'.raised = "none")
          => LET sent == ToDevice(gfx')
                 switched == gfx.currentEffect = gfx.defaultEffect
                 k == IF switched THEN 3 ELSE 0
             IN  /\ switched <=> gfx'.currentEffect # gfx.currentEffect
                 /\ switched =>
                       /\ gfx'.currentEffect = gfx'.defaultEffectShapes
                       /\ SubSeq(sent, 1, 3) =
                             << Ev("SetShaderProgram", gfx'.defaultEffectShapes),
                                Ev("SetBlendMode", "Opaque"),
                                Ev("RenderDrawPoint", <<-1, -1>>) >>
                 /\ Len(sent) >= k + 2
                 /\ sent[k + 1] = Ev("SetBlendMode", call'.blend)
                 /\ sent[k + 2] = Ev("SetUniformVector4", call'.arg)
                 /\ \A i \in (k + 3)..Len(sent) : sent[i].ev \in ShapePrimitives
                 /\ call'.op # "DrawCircle" => Len(sent) = k + 3
                 /\ gfx'.blend = call'.blend
                 /\ gfx'.shapeColor = call'.arg]_vars

\* A red alpha-blended line drawn while the default textured effect is
\* current: switch, Opaque, dummy point, AlphaBlend, red, line.
C27_Witness ==
    /\ call.op = "DrawLine" /\ call.arg = "Red" /\ call.blend = "AlphaBlend"
    /\ gfx.raised = "none"
    /\ Len(ToDevice(gfx)) = 6
    /\ ToDevice(gfx)[1].ev = "SetShaderProgram"
    /\ ToDevice(gfx)[2] = Ev("SetBlendMode", "Opaque")
    /\ ToDevice(gfx)[4] = Ev("SetBlendMode", "AlphaBlend")
    /\ ToDevice(gfx)[6].ev = "RenderDrawLine"
    /\ gfx.blend = "AlphaBlend" /\ gfx.shapeColor = "Red"

\* The primitives of a shape call: what it sent after effect selection, blend
\* mode and colour.
PrimitivesOf(g, before) ==
    LET sent == ToDevice(g)
        k == IF before.currentEffect = before.defaultEffect THEN 3 ELSE 0
    IN  SubSeq(sent, k + 3, Len(sent))

\* The 8 mirror images of the offset (x, y) about (cx, cy); all in half units,
\* every sum even.
Mirrors(cx, cy, x, y) ==
    { <<(cx + sx * x) \div 2, (cy + sy * y) \div 2>> : sx \in {-1, 1}, sy \in {-1, 1} }
        \cup
    { <<(cx + sy * y) \div 2, (cy + sx * x) \div 2>> : sx \in {-1, 1}, sy \in {-1, 1} }

\* C28: an outline circle plots nothing for radius <= 0; otherwise it plots 8
\* points in each iteration, the 8 mirror images of the offset (x, y) about
\* the centre shifted by (-0.5, -0.5), where y is 0.5 in the first iteration
\* and grows by 1 in each, x is radius - 0.5 in the first, stays or falls by
\* 1 from one iteration to the next and is never below y; every point lies
\* within [centre - radius, centre + radius - 1] on both axes.
C28_OutlineCirclePlotsEightMirrors ==
    [][(call'.op = "DrawCircle" /\ ~call'.filled /\ gfx'.raised = "none")
          => LET pts == PrimitivesOf(gfx', gfx)
                 r == call'.opt
                 cx == 2 * Center[1] - 1
                 cy == 2 * Center[2] - 1
                 n == Len(pts) \div 8
                 X(j) == 2 * pts[8 * j + 1].arg[1] - cx
                 Y(j) == 2 * j + 1
             IN  /\ \A i \in 1..Len(pts) : pts[i].ev = "RenderDrawPoint"
                 /\ Len(pts) = 8 * n
                 /\ (r <= 0) <=> (n = 0)
                 /\ n > 0 => X(0) = 2 * r - 1
                 /\ \A j \in 0..(n - 1) :
                       /\ X(j) >= Y(j)
                       /\ j > 0 => X(j) \in {X(j - 1), X(j - 1) - 2}
                       /\ {pts[8 * j + i].arg : i \in 1..8} = Mirrors(cx, cy, X(j), Y(j))
                       /\ pts[8 * j + 1].arg[2] = (cy + Y(j)) \div 2
                 /\ \A i \in 1..Len(pts) :
                       /\ pts[i].arg[1] \in (Center[1] - r)..(Center[1] + r - 1)
                       /\ pts[i].arg[2] \in (Center[2] - r)..(Center[2] + r - 1)]_vars

\* The outline of radius 6 about (5, 5): its first point is (10, 5), it
\* reaches column -1, and it has plotted a multiple of 8 points.
C28_Witness ==
    /\ call.op = "DrawCircle" /\ ~call.filled /\ call.opt = 6
    /\ gfx.raised = "none"
    /\ Len(Sent(gfx, "RenderDrawPoint")) >= 32
    /\ \E i \in 1..Len(gfx.log) : gfx.log[i] = Ev("RenderDrawPoint", <<10, 5>>)
    /\ \E i \in 1..Len(gfx.log) :
          gfx.log[i].ev = "RenderDrawPoint" /\ gfx.log[i].arg[1] = -1
             /\ gfx.log[i].arg[2] >= 0

\* C29: a filled circle of radius r draws nothing for r <= 1; otherwise, for
\* dy = 1 .. r - 1 in this order, one scan line in row centre.Y + dy - r and
\* then one in row centre.Y - dy + r - 1, both from column centre.X - dx to
\* column centre.X + dx - 1 with dx the integer part of the square root of
\* 2 * r * dy - dy * dy: 2 * (r - 1) scan lines, no two in the same row.
C29_FilledCircleScanlines ==
    [][(call'.op = "DrawCircle" /\ call'.filled /\ gfx'.raised = "none")
          => LET lines == PrimitivesOf(gfx', gfx)
                 r == call'.opt
             IN  /\ \A i \in 1..Len(lines) : lines[i].ev = "RenderDrawLine"
                 /\ Len(lines) = (IF r <= 1 THEN 0 ELSE 2 * (r - 1))
                 /\ \A dy \in 1..(r - 1) :
                       \E dx \in 0..r :
                          /\ dx * dx <= 2 * r * dy - dy * dy
                          /\ 2 * r * dy - dy * dy < (dx + 1) * (dx + 1)
                          /\ lines[2 * dy - 1].arg =
                                << Center[1] - dx, Center[2] + dy - r,
                                   Center[1] + dx - 1, Center[2] + dy - r >>
                          /\ lines[2 * dy].arg =
                                << Center[1] - dx, Center[2] - dy + r - 1,
                                   Center[1] + dx - 1, Center[2] - dy + r - 1 >>
                 /\ Cardinality({lines[i].arg[2] : i \in 1..Len(lines)}) = Len(lines)]_vars

\* The filled circle of radius 3 about (5, 5): rows 3, 6, 4, 5, the first
\* two from column 3 to column 6.
C29_Witness ==
    /\ call.op = "DrawCircle" /\ call.filled /\ call.opt = 3
    /\ gfx.raised = "none"
    /\ Sent(gfx, "RenderDrawLine") =
          << Ev("RenderDrawLine", <<3, 3, 6, 3>>), Ev("RenderDrawLine", <<3, 6, 6, 6>>),
             Ev("RenderDrawLine", <<3, 4, 6, 4>>), Ev("RenderDrawLine", <<3, 5, 6, 5>>) >>

\* C30: GetPixel returns TransparentBlack when no reading buffer is prepared
\* (none ever, or the last one freed) and when the position is outside the
\* prepared buffer's bounds, and otherwise the pixel of the buffer prepared
\* last, which SDL still holds; no call, the handle's deletion included,
\* reads a surface that was freed or frees one twice.
C30_PixelReadsGuardedByBuffer ==
    [][/\ call'.op = "GetPixel"
          => LET pos == call'.arg
                 inside == /\ pos[1] >= 0 /\ pos[1] < handle.w
                           /\ pos[2] >= 0 /\ pos[2] < handle.h
             IN  IF ~handle.prepared \/ ~inside
                 THEN handle'.ret = "TransparentBlack"
                 ELSE /\ handle'.ret = [surface |-> handle.created, pos |-> pos]
                      /\ handle.created \in handle.live
       /\ handle'.fault = "none"
       /\ handle'.alive /\ handle'.asSurface # 0 => handle'.asSurface \in handle'.live
       /\ ~handle'.alive => handle'.live = {}]_vars

\* A pixel asked for after the second buffer was prepared and freed.
C30_Witness ==
    /\ call.op = "GetPixel" /\ call.arg = <<1, 1>>
    /\ handle.created = 2 /\ ~handle.prepared
    /\ handle.live = {}
    /\ handle.ret = "TransparentBlack"


\* The facade calls that draw an image, a text or a shape.
DrawCalls == {"DrawImage", "DrawText"} \cup ShapeCalls

\* C31: a draw of an image, a text or a shape leaves a custom effect current;
\* when a draw changes the current effect it is from one built-in effect
\* (textured, shapes) to the other; a custom effect becomes or stops being
\* current only in UseEffect, the per-frame update or window creation.
C31_CustomEffectSurvivesDraws ==
    [][LET old == gfx.currentEffect
           new == gfx'.currentEffect
           builtin == {gfx.defaultEffect, gfx.defaultEffectShapes}
       IN  /\ call'.op \in DrawCalls =>
                 /\ old \in CustomEffects => new = old
                 /\ new # old => old \in builtin /\ new \in builtin
           /\ (new # old /\ (old \in CustomEffects \/ new \in CustomEffects))
                 => call'.op \in {"UseEffect", "Update", "SetWindowProperties"}]_vars

\* A shape drawn right after an image while the custom effect is current.
C31_Witness ==
    /\ call.op \in ShapeCalls
    /\ gfx.raised = "none"
    /\ gfx.currentEffect \in CustomEffects
    /\ gfx.program = gfx.currentEffect
    /\ Count(gfx.log, {"SetShaderProgram"}) = 0
    /\ Count(gfx.log, ShapePrimitives) > 0


\* The backend before any text was drawn or measured: nothing in the cache.
NoTextHistory(g) == [g EXCEPT !.cache = [k \in Keys |-> EmptyEntry]]

\* C32: the rectangle a text call reports for (font, text, position,
\* fontSize, maxWidth, origin) is the one it reports for these arguments when
\* no text was drawn or measured before.
C32_TextGeometryHistoryIndependent ==
    [][call'.op \in {"GetTextBoundingBox", "BackendDrawText"}
          => gfx'.ret = GfxGetTextBoundingBox(NoTextHistory(Enter(gfx)), call'.arg).ret]_vars


\* The device's target that stands for the facade's _renderTarget.
BoundFor(target) == IF target = NullImage THEN "screen" ELSE target.name

\* The calls that bind another render target while they run.
RebindingCalls ==
    {"CreateImageFromScreen", "SaveToFile", "Clear", "PrepareReadingBuffer"}

\* A call that binds another target for a while ends with the target bound
\* that was bound when it started, and leaves GetRenderTarget's value.
RebindingCallsRestoreTarget ==
    [][call'.op \in RebindingCalls
          => /\ Count(gfx'.log, {"SetRenderTarget"}) = 2
             /\ gfx'.log[Len(gfx'.log)].ev \in {"SetRenderTarget", "SetTextureBlendMode"}
             /\ Sent(gfx', "SetRenderTarget")[2].arg = TargetArg(gfx.target)
             /\ gfx'.target = gfx.target
             /\ renderTarget' = renderTarget]_vars

\* C33: after every facade call the render target bound in the backend is
\* the one last passed to SetRenderTarget, which GetRenderTarget returns
\* (the screen for null).
C33_BoundTargetIsLastSet ==
    HaveValidWindow => gfx.target = BoundFor(renderTarget)


\* C34: the per-frame update sends no target or viewport command and leaves
\* the bound target, the device's viewport, the facade's render target and
\* viewport and the window size as they were, so RenderableSize() after the
\* frame is what it was before.
C34_PresentKeepsTargetAndViewport ==
    [][call'.op = "Update"
          => /\ Count(gfx'.log, {"RenderPresent"}) = 1
             /\ Count(gfx'.log, {"SetRenderTarget", "RenderSetViewport"}) = 0
             /\ gfx'.target = gfx.target /\ gfx'.vp = gfx.vp
             /\ renderTarget' = renderTarget /\ viewport' = viewport
             /\ gfx'.windowSize = gfx.windowSize
             /\ RenderableSize(gfx', renderTarget', viewport')
                    = RenderableSize(gfx, renderTarget, viewport)]_vars

\* A frame presented while the 9 x 4 image is the target and a viewport is
\* set.
C34_Witness ==
    /\ call.op = "Update"
    /\ gfx.raised = "none"
    /\ renderTarget.name = "sprite" /\ gfx.target = "sprite"
    /\ viewport # ZeroRect /\ gfx.vp = viewport
    /\ RenderableSize(gfx, renderTarget, viewport) # gfx.windowSize


\* The manager calls a valid config leads to, in order.
ConfigCalls(config) ==
    <<"SetWindowProperties", "SetAudioProperties">>
        \o [i \in 1..Len(config.controls) |-> "SetKeyBind"]

\* C35: LoadConfig with a config that did not parse raises AssetLoadError
\* and has called no manager: window, audio backend and key binds are as
\* before.  With a config that parsed it calls SetWindowProperties, then
\* SetAudioProperties, then SetKeyBind for each key of the controls section,
\* and stops only at a call that raised.
C35_LoadConfigValidatesFirst ==
    [][call'.op = "LoadConfig"
          => LET config == call'.arg
                 expected == ConfigCalls(config)
             IN  IF config.parseError # 0
                 THEN /\ game'.raised = "AssetLoadError"
                      /\ game'.calls = <<>>
                      /\ gfx' = Enter(gfx)
                      /\ sfx' = SfxEnter(sfx)
                      /\ input' = input
                 ELSE /\ game'.raised \in {"none", "InitializeError"}
                      /\ game'.raised = "none" => game'.calls = expected
                      /\ game'.raised # "none" => game'.calls = <<"SetWindowProperties">>
                      /\ game'.raised = "none" =>
                            /\ gfx'.window = gfx.window + 1
                            /\ Len(sfx'.log) >= 1
                            /\ sfx'.log[1].ev = "SetAudioProperties"
                            /\ input' = input \o config.controls]_vars

\* A corrupted config loaded after a valid one: nothing is touched.
C35_Witness ==
    /\ call.op = "LoadConfig" /\ call.arg.parseError = 3
    /\ game.raised = "AssetLoadError" /\ game.calls = <<>>
    /\ gfx.window = 1 /\ gfx.log = <<>>
    /\ sfx.audio # <<>> /\ sfx.log = <<>>
    /\ Len(input) = 2


\* C36: once a music volume v (SetMusicVolume, PlayMusic) and a master
\* music volume m (SetMasterVolume) were given, the music volume the backend
\* was sent last is max(trunc(v * m / 100), 1) for the most recent v and m.
C36_MusicVolumeIsScaledOnce ==
    (sfx.lastVolume # <<>> /\ sfx.lastMaster # <<>>)
        => sfx.music = << Max(TruncDiv(sfx.lastVolume[1] * sfx.lastMaster[1], 100), 1) >>

\* Every call that sets a music or master volume sends the backend the
\* single-precision product of the volume given last and the master volume
\* given last, cut to an integer, or 1 when that is less: the master volume
\* scales the stored volume, not the volume scaled before.
MusicVolumeNeverCompounds ==
    (sfx.lastVolume # <<>> /\ sfx.lastMaster # <<>>)
        => /\ sfx.musicVolume = sfx.lastVolume[1]
           /\ sfx.music = << Max(FloatToInt(FloatTimes(sfx.lastVolume[1],
                                      FloatPercent(sfx.lastMaster[1]))), 1) >>
           /\ sfx.music[1] \in
                 { Max(TruncDiv(sfx.lastVolume[1] * sfx.lastMaster[1], 100), 1),
                   Max(TruncDiv(sfx.lastVolume[1] * sfx.lastMaster[1], 100) - 1, 1) }


\* C37: PlaySound never returns AllChannels (a backend result of AllChannels
\* is returned as InvalidSoundChannel), and a channel operation called with
\* InvalidSoundChannel calls nothing on the backend.
C37_InvalidChannelNeverReachesBackend ==
    [][/\ call'.op = "PlaySound"
          => /\ sfx'.ret # <<AllChannels>>
             /\ call'.arg = AllChannels => sfx'.ret = <<InvalidSoundChannel>>
       /\ (call'.op \in ChannelOps /\ call'.arg = InvalidSoundChannel)
          => sfx'.log = <<>>]_vars

\* What each call on the dropdown does to its open and locked state: after
\* _Init the dropdown is closed; a press toggles the open state; after
\* ShowDropdownList(show) the list is open iff show and Locked is the
\* negation of that; Draw renders the list while open and only the selected
\* text's background while closed.
DropDownStep ==
    /\ call'.op = "_Init" => ~ui'.isOpened
    /\ call'.op = "OnMousePressed"
          => ui'.isOpened = ~ui.isOpened /\ ui'.Locked = ~ui'.isOpened
    /\ call'.op = "ShowDropdownList"
          => ui'.isOpened = call'.arg /\ ui'.Locked = ~ui'.isOpened
    /\ call'.op = "Draw"
          => /\ ui'.drawn = IF ui.isOpened THEN "list" ELSE "SelectedTextBackground"
             /\ ui'.isOpened = ui.isOpened /\ ui'.Locked = ui.Locked

\* The second of two consecutive presses leaves the dropdown in the open and
\* locked state the first one found it in.
TwoPressesRestore ==
    (call.op = "OnMousePressed" /\ call'.op = "OnMousePressed")
        => /\ ui'.isOpened = ui.before.isOpened
           /\ ui'.Locked = ui.before.Locked

\* The state machine without the statement about two presses.
DropDownStateMachine == [][DropDownStep]_vars

\* C38: the dropdown's open / locked state machine: every call acts as in
\* DropDownStep, and two consecutive presses return the dropdown to the open
\* and locked state it had before them.
C38_DropDownStateMachineAndTwoPresses ==
    [][DropDownStep /\ TwoPressesRestore]_vars

====
